---- MODULE Spec2Model ----
(***************************************************************************)
(* Verification model of krun (aojea/pkdos).                               *)
(*                                                                         *)
(* Part I  : the parallel remote-exec dispatcher UploadAndExecuteOnPods.   *)
(*           The tree holds two definitions of it: the print-mutex one in  *)
(*           pkg/exec/exec.go and the log-channel one (logCh, logger) in   *)
(*           agent/fsync/integrity_test.go lines 81-228.  The variable     *)
(*           `variant` says which of the two is running.                   *)
(* Part II : the hub/peer fan-out SyncPods of pkg/cdc/sync_pods.go.        *)
(***************************************************************************)
EXTENDS Integers, Sequences, FiniteSets, TLC

\* ------------------------------------------------------------------ bounds
\* lines a remote command delivers, on stdout and stderr together
MaxLines == 1
\* capacity of logCh in the model (make(chan logEntry, 1000) in the code)
LogCap == 1

\* pods []corev1.Pod, in the order of the launch loop
pods == <<"a", "b">>
NumPods == Len(pods)
PodSet == {pods[n] : n \in 1..NumPods}
Streams == {"stdout", "stderr"}

VARIABLES
  variant,      \* "chan" or "mutex": which UploadAndExecuteOnPods is built
  uploadSrc,    \* uploadSrc != ""
  commandArgs,  \* len(commandArgs) > 0
  rootDone,     \* the caller's context is cancelled
  ctxDone,      \* ctx.Err() != nil for the context derived in line 25/84
  mainPc,       \* position of UploadAndExecuteOnPods itself
  launched,     \* number of loop iterations that started a goroutine
  wg,           \* sync.WaitGroup counter (chan variant)
  workerChan,   \* number of tokens buffered in workerChan (mutex variant)
  received,     \* iterations of `for range concurrency` completed
  result,       \* "none", "nil" or "ctxErr"
  ep,           \* position of each endpoint goroutine
  msg,          \* status text the endpoint goroutine is about to report
  hist,         \* per endpoint: the execCmd calls issued, with their result
  tarp,         \* per endpoint: state of the tar producer goroutine
  sc,           \* per endpoint and stream: position of logStream
  delivered,    \* per endpoint and stream: lines written to pwOut / pwErr
  logCh,        \* buffered content of logCh
  chClosed,     \* close(logCh) has happened
  lg,           \* position of logger
  printMutex,   \* holder of printMutex
  out,          \* bytes (tokens) written so far to os.Stdout / os.Stderr
  panicked      \* the process died with "send on closed channel"

VARIABLES
  npods,        \* len(pods) given to SyncPods; pod 1 is the leader
  leaderIP,     \* leader.Status.PodIP, as tokens (<<>> is "")
  syncPc,       \* position of SyncPods itself
  syncResult,   \* what SyncPods returned
  tmpDir,       \* the krun-chunks-* temp dir of SyncLocalToLeader
  execHistory,  \* the ExecCmd calls issued so far, with their result
  hub,          \* state of the goroutine that runs the hub exec
  hubEmitted,   \* lines the hub exec has written to its stdout pipe
  hubAnnounced, \* one of them had the banner followed by a port
  missingHashes, \* the list checkRemote returned
  hubPort,      \* the hubPort variable of SyncPods
  hubURL,       \* the hubURL variable of SyncPods
  portLine,     \* the hub line hubPort was taken from
  stdinClosed,  \* stdinWriter.Close() and cancelHub() have run
  peers,        \* state of each peer goroutine
  errCh         \* content of errCh

syncVars == <<npods, leaderIP, syncPc, syncResult, tmpDir, execHistory, hub,
              hubEmitted, hubAnnounced, missingHashes, hubPort, hubURL,
              portLine, stdinClosed, peers,
              errCh>>

\* the agent (agent/fsync/main.go): the data directory it works on
VARIABLES
  manifest,     \* Manifest.Chunks, the hashes in order
  chunkDir,     \* the chunks directory: file name -> inode, or NoFile
  inodes        \* inode -> the bytes stored in it

fsVars == <<manifest, chunkDir, inodes>>

\* runCheck
VARIABLES
  checkPc,      \* "off", "start", "done"
  checkIn,      \* whether stdin holds a manifest that decodes
  checkWriter,  \* whether writes to stdout succeed
  checkOut,     \* what was written to stdout
  checkErr      \* what runCheck returned

checkVars == <<checkPc, checkIn, checkWriter, checkOut, checkErr>>

\* runPeer and downloadChunk
VARIABLES
  peerPc,       \* "off", "poll", "get", "loop", "returned"
  peerCtx,      \* ctx is done
  lastPoll,     \* what the last GET <tracker>/manifest came back with
  peerFiles,    \* which of manifest.json and krun-chunks are in <dir>
  peerCleanup,  \* the -cleanup flag
  peerIdx,      \* the manifest entry the download loop is at
  peerErr,      \* what runPeer returned
  dl,           \* manifest entry -> state of the download goroutine
  body,         \* manifest entry -> the bytes its GET delivered
  handle,       \* manifest entry -> the inode of its open temp file
  peerErrCh,    \* content of errCh
  requests,     \* the GET /chunks/<hash> requests sent so far
  hadChunks,    \* the chunks that were stored when runPeer began
  payload,      \* the stream applyManifest wrote to the destination
  peerMirrored  \* the streams whose created list the mirror step was given

peerVars == <<peerPc, peerCtx, lastPoll, peerFiles, peerCleanup, peerIdx,
              peerErr, dl, body, handle, peerErrCh, requests, hadChunks,
              payload,
                 peerMirrored>>

\* cleanupExtraneousFiles
VARIABLES
  tree,         \* the destination: path -> "none", "file" or "dir"
  tree0,        \* the destination as it was when the mirror step began
  keep,         \* the keep list, the paths applyManifest created
  mirrorPc,     \* "off", "start", "walk", "done", "returned"
  todo,         \* the paths filepath.Walk has still to visit
  mirrorErr,    \* what cleanupExtraneousFiles returned
  callerErr     \* what the enclosing runIngest or runPeer returned

mirrorVars == <<tree, tree0, keep, mirrorPc, todo, mirrorErr, callerErr>>

\* runIngest and applyManifest
VARIABLES
  ingestNames,  \* the entry names of the tar stream on stdin, still unread
  applyNames,   \* the entry names of the reassembled tar, still unread
  ingPc,        \* "off", "read", "apply", "returned"
  ingCleanup,   \* the -cleanup flag
  written,      \* the paths at which a file or directory was made
  ingested,     \* the files of the chunks directory: path and bytes
  created,      \* the created list of applyManifest
  manifestBytes, \* what <dir>/manifest.json holds, "none" when it is not there
  hasChunks,    \* <dir>/krun-chunks exists
  ingMirrored,  \* the keep lists cleanupExtraneousFiles was called with
  ingErr        \* what runIngest returned

ingestVars == <<ingestNames, applyNames, ingPc, ingCleanup, written,
                ingested, created, manifestBytes, hasChunks, ingMirrored,
                ingErr>>

\* the download pool of runPeer
VARIABLES
  poolPc,       \* "off", "loop", "spawn", "returned"
  poolLen,      \* the number of chunks in the manifest
  poolIdx,      \* the manifest entry the download loop is at
  task,         \* manifest entry -> "none", "running", "ok", "failed"
  sem,          \* the number of elements in the channel sem
  poolErrCh,    \* content of errCh: the entries whose error is in it
  poolErr       \* what runPeer returned

poolVars == <<poolPc, poolLen, poolIdx, task, sem, poolErrCh, poolErr>>

\* runHub and newHubHandler
VARIABLES
  srvPc,        \* "off", "start", "serving", "shutdown", "returned", "exited"
  srvCtx,       \* the hub's context is done
  srvStdin,     \* "open" or "eof"
  watchPc,      \* the goroutine on stdin: "read", "shutdown", "done"
  listening,    \* the listener is open
  conns,        \* the number of requests in flight
  srvFiles,     \* which of manifest.json and krun-chunks are in <dir>
  srvChunks,    \* the names of the files in <dir>/krun-chunks
  srvReq,       \* the last request
  srvResp,      \* the status code of the answer to it
  triggers      \* the shutdown triggers that have come

srvVars == <<srvPc, srvCtx, srvStdin, watchPc, listening, conns, srvFiles,
             srvChunks, srvReq, srvResp, triggers>>

\* GenerateManifest
VARIABLES
  genPc,        \* "off", "chunk", "returned"
  tarStream,    \* the bytes MakeTar writes into the pipe
  tarRest,      \* the bytes the chunker has not yet emitted
  emitted,      \* the chunks the chunker has emitted, in order
  genManifest,  \* the manifest m
  genDir,       \* the files of chunksDir: name and bytes
  packFailed,   \* MakeTar returns an error after it wrote tarStream
  genErr        \* the error GenerateManifest returned

genVars == <<genPc, tarStream, tarRest, emitted, genManifest, genDir,
             packFailed, genErr>>

\* MakeTar
VARIABLES
  tarPc,        \* "off", "start", "walk", "returned"
  srcIsDir,     \* the source is a directory
  srcTree,      \* the source: relative path -> "none", "file" or "dir"
  matching,     \* the relative paths the exclude expression matches
  walkTodo,     \* the paths filepath.Walk has still to visit
  entries,      \* the names of the tar entries written, in order
  tarErr        \* what MakeTar returned

tarVars == <<tarPc, srcIsDir, srcTree, matching, walkTodo, entries, tarErr>>

\* the tar writer of ingestRemote
VARIABLES
  remPc,        \* "off", "write", "closed"
  remMissing,   \* the hashes check reported missing
  remLocal,     \* the hashes that have a file in the local chunks directory
  remIdx,       \* the entry of missing the loop is at
  remSent,      \* the names of the tar entries written into the pipe
  remGone       \* the exec closed its end before it had read everything

remVars == <<remPc, remMissing, remLocal, remIdx, remSent, remGone>>

restVars == <<poolVars, srvVars, genVars, tarVars, remVars>>
notPool == <<srvVars, genVars, tarVars, remVars>>
notSrv == <<poolVars, genVars, tarVars, remVars>>

execVars == <<variant, uploadSrc, commandArgs, rootDone, ctxDone, mainPc,
              launched, wg, workerChan, received, result, ep, msg, hist, tarp,
              sc, delivered, logCh, chClosed, lg, printMutex, out,
              panicked>>

\* what the actions of one part leave alone
agentVars == <<fsVars, checkVars, peerVars, mirrorVars, ingestVars>>
notExec == <<syncVars, agentVars, restVars>>
notSync == <<execVars, agentVars, restVars>>
notAgent == <<execVars, syncVars, restVars>>
notRest == <<execVars, syncVars, agentVars>>
notGen == <<notRest, poolVars, srvVars, tarVars, remVars>>
notTar == <<notRest, poolVars, srvVars, genVars, remVars>>
notRem == <<notRest, poolVars, srvVars, genVars, tarVars>>

\* ---------------------------------------------------------------- tokens
\* The sinks are modelled as sequences of tokens; every token is a record
\* of the same shape so that any two of them can be compared.
Lit(x) == [lit |-> x, pod |-> "", stream |-> "", k |-> 0]
Name(p) == [lit |-> "name", pod |-> p, stream |-> "", k |-> 0]
\* the k-th line the command on p delivered on stream s
LineText(p, s, k) == [lit |-> "line", pod |-> p, stream |-> s, k |-> k]
\* a status text produced by the endpoint goroutine itself
StatusText(m) == [lit |-> m, pod |-> "", stream |-> "", k |-> 0]

\* prefix := fmt.Sprintf("[%s]", p.Name)
Prefix(p) == <<Lit("["), Name(p), Lit("]")>>

\* fmt.Fprintf(out, "%s %s\n", prefix, text)
FormatLine(prefix, text) == prefix \o <<Lit(" "), text, Lit("\n")>>

\* the mutex variant's status lines:
\*   "Mkdir Error: %s %s\n", "Transfer Error: %s %s\n", "Command Error: %s %s\n"
\*   with (prefix, err), and "%s Synced %s -> %s\n" with the prefix first
FormatStatus(p, m) ==
  IF m = "Synced"
    THEN FormatLine(Prefix(p), StatusText("Synced"))
    ELSE <<Lit(m)>> \o Prefix(p) \o <<Lit(" "), StatusText("err"), Lit("\n")>>

\* the chan variant's status entries:
\*   logEntry{prefix: prefix, text: fmt.Sprintf("Mkdir Error: %v", err), out: os.Stderr}
logEntry(p, text, s) == [prefix |-> Prefix(p), text |-> text, out |-> s]

\* A record reaches an io.Writer as bytes; two fragments stand for them.
Frag1(rec) == SubSeq(rec, 1, Len(rec) - 2)
Frag2(rec) == SubSeq(rec, Len(rec) - 1, Len(rec))

\* task identities for printMutex
NoTask == <<"", "", "">>
EpTask(p) == <<"ep", p, "">>
ScTask(p, s) == <<"sc", p, s>>

\* ------------------------------------------------------------------ Init
\* number of follower pods SyncPods is given at most
MaxPeers == 2
\* lines the hub exec writes to its stdout at most
MaxHubLines == 2

Pods == 1..(MaxPeers + 1)
NoLine == <<>>

\* Part II at rest, while part I runs
SyncIdle ==
  /\ npods = 0 /\ leaderIP = <<>> /\ syncPc = "off"
  /\ syncResult = [kind |-> "none", pod |-> 0]
  /\ tmpDir = "none" /\ execHistory = <<>> /\ hub = "none" /\ hubEmitted = 0
  /\ hubAnnounced = FALSE /\ missingHashes = <<>>
  /\ hubPort = <<>> /\ hubURL = <<>> /\ portLine = NoLine
  /\ stdinClosed = FALSE
  /\ peers = [p \in Pods |-> "none"]
  /\ errCh = <<>>

\* chunks a manifest lists at most
MaxChunks == 2

\* contents of chunks, and their SHA-256
Blobs == {"b1", "b2"}
NoBytes == ""
Sha(b) == CASE b = "b1" -> "h1" [] b = "b2" -> "h2" [] OTHER -> "h0"
Hashes == {Sha(b) : b \in Blobs}

\* file names of the chunks directory: <hash> and <hash>.tmp
Chunk(h) == [hash |-> h, ext |-> ""]
Tmp(h) == [hash |-> h, ext |-> ".tmp"]
ChunkNames == {Chunk(h) : h \in Hashes} \cup {Tmp(h) : h \in Hashes}
NoFile == [old |-> "", new |-> 0]
\* the inode of a chunk that is there from the start, and the inode that
\* the download of manifest entry n creates
OldInode(h) == [old |-> h, new |-> 0]
NewInode(n) == [old |-> "", new |-> n]
Inodes == {OldInode(h) : h \in Hashes} \cup {NewInode(n) : n \in 1..MaxChunks}

Manifests == UNION {[1..n -> Hashes] : n \in 0..MaxChunks}

\* the data directories the agent may find: any of the chunks is already
\* stored under its hash, with the bytes that hash to it
DataDirs ==
  {[f \in ChunkNames |->
      IF f.ext = "" /\ f.hash \in have THEN OldInode(f.hash) ELSE NoFile] :
     have \in SUBSET Hashes}
FreshInodes ==
  [i \in Inodes |->
     IF \E b \in Blobs : i = OldInode(Sha(b))
     THEN CHOOSE b \in Blobs : i = OldInode(Sha(b))
     ELSE NoBytes]

FsIdle ==
  /\ manifest = <<>>
  /\ chunkDir = [f \in ChunkNames |-> NoFile]
  /\ inodes = [i \in Inodes |-> NoBytes]

CheckIdle ==
  /\ checkPc = "off" /\ checkIn = TRUE /\ checkWriter = TRUE
  /\ checkOut = <<>> /\ checkErr = "none"

PeerIdle ==
  /\ peerPc = "off" /\ peerCtx = FALSE /\ lastPoll = "none"
  /\ peerFiles = {} /\ peerCleanup = FALSE /\ peerIdx = 0
  /\ peerErr = [kind |-> "nil", hash |-> ""]
  /\ dl = [n \in 1..MaxChunks |-> "none"]
  /\ body = [n \in 1..MaxChunks |-> NoBytes]
  /\ handle = [n \in 1..MaxChunks |-> NoFile]
  /\ peerErrCh = <<>> /\ requests = <<>> /\ hadChunks = {}
  /\ payload = <<>> /\ peerMirrored = <<>>

ManifestFile == "manifest.json"
ChunksDir == "krun-chunks"

MirrorIdle ==
  /\ tree = <<>> /\ tree0 = <<>> /\ keep = {} /\ mirrorPc = "off"
  /\ todo = <<>> /\ mirrorErr = "none" /\ callerErr = "none"

IngestIdle ==
  /\ ingestNames = <<>> /\ applyNames = <<>> /\ ingPc = "off"
  /\ ingCleanup = FALSE /\ written = {} /\ ingested = {} /\ created = <<>>
  /\ manifestBytes = "none" /\ hasChunks = FALSE /\ ingMirrored = <<>>
  /\ ingErr = "none"

\* Part III at rest
AgentIdle == FsIdle /\ CheckIdle /\ PeerIdle /\ MirrorIdle /\ IngestIdle

\* chunks in the manifest of the download pool at most
MaxTasks == 6

PoolIdle ==
  /\ poolPc = "off" /\ poolLen = 0 /\ poolIdx = 0
  /\ task = [n \in 1..MaxTasks |-> "none"]
  /\ sem = 0 /\ poolErrCh = <<>> /\ poolErr = "none"

SrvIdle ==
  /\ srvPc = "off" /\ srvCtx = FALSE /\ srvStdin = "open"
  /\ watchPc = "read" /\ listening = FALSE /\ conns = 0
  /\ srvFiles = {} /\ srvChunks = {}
  /\ srvReq = [method |-> "", path |-> <<>>] /\ srvResp = 0
  /\ triggers = {}

GenIdle ==
  /\ genPc = "off" /\ tarStream = <<>> /\ tarRest = <<>> /\ emitted = <<>>
  /\ genManifest = <<>> /\ genDir = {} /\ packFailed = FALSE
  /\ genErr = "none"

TarIdle ==
  /\ tarPc = "off" /\ srcIsDir = FALSE /\ srcTree = <<>> /\ matching = {}
  /\ walkTodo = <<>> /\ entries = <<>> /\ tarErr = "none"

\* Part IV at rest
RemIdle ==
  /\ remPc = "off" /\ remMissing = <<>> /\ remLocal = {} /\ remIdx = 0
  /\ remSent = <<>> /\ remGone = FALSE

RestIdle == PoolIdle /\ SrvIdle /\ GenIdle /\ TarIdle /\ RemIdle

ExecIdle ==
  /\ variant = "none" /\ uploadSrc = FALSE /\ commandArgs = FALSE
  /\ rootDone = FALSE /\ ctxDone = FALSE /\ mainPc = "off"
  /\ launched = 0 /\ wg = 0 /\ workerChan = 0 /\ received = 0
  /\ result = "none"
  /\ ep = [p \in PodSet |-> "idle"]
  /\ msg = [p \in PodSet |-> ""]
  /\ hist = [p \in PodSet |-> <<>>]
  /\ tarp = [p \in PodSet |-> "none"]
  /\ sc = [p \in PodSet |-> [s \in Streams |-> "none"]]
  /\ delivered = [p \in PodSet |-> [s \in Streams |-> 0]]
  /\ logCh = <<>> /\ chClosed = FALSE /\ lg = "recv"
  /\ printMutex = NoTask
  /\ out = [s \in Streams |-> <<>>]
  /\ panicked = FALSE

\* State on entry to the launch loop: ctx derived, channels made, and (chan
\* variant) the logger goroutine started.
ExecInit ==
  /\ variant \in {"chan", "mutex"}
  /\ uploadSrc \in BOOLEAN /\ commandArgs \in BOOLEAN
  /\ rootDone = FALSE /\ ctxDone = FALSE /\ mainPc = "loop"
  /\ launched = 0 /\ wg = 0 /\ workerChan = 0 /\ received = 0
  /\ result = "none"
  /\ ep = [p \in PodSet |-> "idle"]
  /\ msg = [p \in PodSet |-> ""]
  /\ hist = [p \in PodSet |-> <<>>]
  /\ tarp = [p \in PodSet |-> "none"]
  /\ sc = [p \in PodSet |-> [s \in Streams |-> "none"]]
  /\ delivered = [p \in PodSet |-> [s \in Streams |-> 0]]
  /\ logCh = <<>> /\ chClosed = FALSE /\ lg = "recv"
  /\ printMutex = NoTask
  /\ out = [s \in Streams |-> <<>>]
  /\ panicked = FALSE

\* ------------------------------------------------- UploadAndExecuteOnPods
SetRes(h, r) == [h EXCEPT ![Len(h)] = [@ EXCEPT !.res = r]]
Call(c) == [cmd |-> c, res |-> "run"]

\* mutant: a failed mkdir or transfer does not stop the endpoint
UploadFailedMut(r) == FALSE

\* `if err != nil { ...; return }` after the mkdir and the tar execCmd
UploadFailed(r) == r = "err"

ReaderSeesMut(failed) == "eof"
\* go func() { defer pw.Close(); if err := makeTar(...); err != nil {
\* pw.CloseWithError(err) ... } }(): what the reader of the pipe gets
\* after the last byte
ReaderSees(failed) == IF failed THEN "err" ELSE "eof"

\* mutant: Lock does not wait for the holder
CanLockMut == TRUE

\* sync.Mutex.Lock succeeds only on a free mutex
CanLock == printMutex = NoTask

\* the goroutine returns: deferred wg.Done() / workerChan <- struct{}{}
Finish(p) ==
  /\ ep' = [ep EXCEPT ![p] = "done"]
  /\ wg' = IF variant = "chan" THEN wg - 1 ELSE wg
  /\ workerChan' = IF variant = "mutex" THEN workerChan + 1 ELSE workerChan
  /\ UNCHANGED <<sc, hist>>

\* `if len(commandArgs) > 0`: pipes made, both logStream goroutines started,
\* the command execCmd issued
StartCmd(p) ==
  /\ ep' = [ep EXCEPT ![p] = "cmd"]
  /\ sc' = [sc EXCEPT ![p] = [s \in Streams |-> "read"]]
  /\ hist' = [hist EXCEPT ![p] = Append(@, Call("cmd"))]
  /\ UNCHANGED <<wg, workerChan>>

CommandPhase(p) == IF commandArgs THEN StartCmd(p) ELSE Finish(p)

\* what follows a status report: only "Synced" continues to the command
AfterReport(p) == IF msg[p] = "Synced" THEN CommandPhase(p) ELSE Finish(p)

\* The model follows one call of UploadAndExecuteOnPods until it returns (its
\* callers in cmd/run and cmd/jobset then leave the process) or until the
\* process dies in a panic.
Running == ~panicked /\ mainPc # "returned"

\* the endpoint goroutine starts: upload phase (tar producer started, mkdir
\* exec issued) or directly the command phase
EpBegin(p) ==
  IF uploadSrc
    THEN /\ tarp' = [tarp EXCEPT ![p] = "run"]
         /\ hist' = [hist EXCEPT ![p] = Append(@, Call("mkdir"))]
         /\ ep' = [ep EXCEPT ![p] = "mkdir"]
         /\ UNCHANGED <<sc, workerChan>>
    ELSE /\ IF commandArgs
              THEN /\ ep' = [ep EXCEPT ![p] = "cmd"]
                   /\ sc' = [sc EXCEPT ![p] = [s \in Streams |-> "read"]]
                   /\ hist' = [hist EXCEPT ![p] = Append(@, Call("cmd"))]
                   /\ UNCHANGED workerChan
              ELSE /\ ep' = [ep EXCEPT ![p] = "done"]
                   /\ workerChan' = IF variant = "mutex" THEN workerChan + 1
                                                         ELSE workerChan
                   /\ UNCHANGED <<sc, hist>>
         /\ UNCHANGED tarp

\* one iteration of `for i, pod := range pods`: break on a cancelled context,
\* else wg.Add(1) and `go func(p)`, whose first steps are EpBegin
MainLaunch ==
  /\ Running
  /\ UNCHANGED notExec
  /\ mainPc = "loop"
  /\ IF launched = NumPods \/ ctxDone
       THEN /\ mainPc' = "wait"
            /\ UNCHANGED <<launched, wg, ep, tarp, hist, sc, workerChan>>
       ELSE /\ launched' = launched + 1
            /\ EpBegin(pods[launched + 1])
            /\ wg' = IF variant = "chan" /\ (uploadSrc \/ commandArgs)
                       THEN wg + 1 ELSE wg
            /\ UNCHANGED mainPc
  /\ UNCHANGED <<variant, uploadSrc, commandArgs, rootDone, ctxDone,
                 received, result, msg, delivered,
                 logCh, chClosed, lg, printMutex, out, panicked>>

\* wg.Wait() returns, then close(logCh)
MainClose ==
  /\ Running
  /\ UNCHANGED notExec
  /\ variant = "chan" /\ mainPc = "wait" /\ wg = 0
  /\ chClosed' = TRUE
  /\ mainPc' = "waitLogger"
  /\ UNCHANGED <<variant, uploadSrc, commandArgs, rootDone, ctxDone, launched,
                 wg, workerChan, received, result, ep, msg, hist, tarp, sc,
                 delivered, logCh, lg, printMutex, out, panicked>>

\* mutant: an endpoint's failure is promoted to the returned error
ReturnValueMut ==
  IF ctxDone \/ \E p \in PodSet : \E n \in 1..Len(hist[p]) : hist[p][n].res = "err"
    THEN "ctxErr" ELSE "nil"

\* the value returned after the drain: ctx.Err() if set, else nil
ReturnValue == IF ctxDone THEN "ctxErr" ELSE "nil"

\* <-loggerDone (a rendezvous with logger's `done <- struct{}{}`), then
\* `if ctx.Err() != nil { return ctx.Err() }; return nil` and the deferred
\* cancel()
MainReturn ==
  /\ Running
  /\ UNCHANGED notExec
  /\ mainPc = "waitLogger" /\ lg = "signal"
  /\ lg' = "done"
  /\ result' = ReturnValue
  /\ mainPc' = "returned"
  /\ ctxDone' = TRUE
  /\ UNCHANGED <<variant, uploadSrc, commandArgs, rootDone, launched, wg,
                 workerChan, received, ep, msg, hist, tarp, sc, delivered,
                 logCh, chClosed, printMutex, out, panicked>>

\* mutex variant, one pass of `for range concurrency { select {...} }`:
\* either case may be taken when both are ready; `return nil` after the loop
MainSelect ==
  /\ Running
  /\ UNCHANGED notExec
  /\ variant = "mutex" /\ mainPc = "wait"
  /\ \/ /\ received < NumPods /\ ctxDone
        /\ result' = "ctxErr" /\ mainPc' = "returned"
        /\ UNCHANGED <<workerChan, received, ctxDone>>
     \/ /\ received < NumPods /\ workerChan > 0
        /\ workerChan' = workerChan - 1 /\ received' = received + 1
        /\ UNCHANGED <<result, mainPc, ctxDone>>
     \/ /\ received = NumPods
        /\ result' = "nil" /\ mainPc' = "returned" /\ ctxDone' = TRUE
        /\ UNCHANGED <<workerChan, received>>
  /\ UNCHANGED <<variant, uploadSrc, commandArgs, rootDone, launched, wg, ep,
                 msg, hist, tarp, sc, delivered, logCh, chClosed, lg,
                 printMutex, out, panicked>>

\* the caller's context ends (signal, deadline)
RootCancel ==
  /\ Running
  /\ UNCHANGED notExec
  /\ ~rootDone
  /\ rootDone' = TRUE /\ ctxDone' = TRUE
  /\ UNCHANGED <<variant, uploadSrc, commandArgs, mainPc, launched, wg,
                 workerChan, received, result, ep, msg, hist, tarp, sc,
                 delivered, logCh, chClosed, lg, printMutex, out,
                 panicked>>

\* the mkdir execCmd returns
MkdirReturn(p, r) ==
  /\ Running
  /\ UNCHANGED notExec
  /\ ep[p] = "mkdir"
  /\ IF UploadFailed(r)
       THEN /\ hist' = [hist EXCEPT ![p] = SetRes(@, r)]
            /\ ep' = [ep EXCEPT ![p] = "report"]
            /\ msg' = [msg EXCEPT ![p] = "Mkdir Error: "]
       ELSE /\ hist' = [hist EXCEPT ![p] = Append(SetRes(@, r), Call("tar"))]
            /\ ep' = [ep EXCEPT ![p] = "tar"]
            /\ UNCHANGED msg
  /\ UNCHANGED <<variant, uploadSrc, commandArgs, rootDone, ctxDone, mainPc,
                 launched, wg, workerChan, received, result, tarp, sc,
                 delivered, logCh, chClosed, lg, printMutex, out,
                 panicked>>

\* the tar execCmd returns; it can succeed only once the producer has closed
\* the pipe cleanly
TarReturn(p, r) ==
  /\ Running
  /\ UNCHANGED notExec
  /\ ep[p] = "tar"
  /\ r = "ok" => /\ tarp[p] \in {"done", "failed"}
                 /\ ReaderSees(tarp[p] = "failed") = "eof"
  /\ hist' = [hist EXCEPT ![p] = SetRes(@, r)]
  /\ ep' = [ep EXCEPT ![p] = "report"]
  /\ msg' = [msg EXCEPT ![p] = IF UploadFailed(r) THEN "Transfer Error: "
                                                  ELSE "Synced"]
  /\ UNCHANGED <<variant, uploadSrc, commandArgs, rootDone, ctxDone, mainPc,
                 launched, wg, workerChan, received, result, tarp, sc,
                 delivered, logCh, chClosed, lg, printMutex, out,
                 panicked>>

\* makeTar wrote everything into the pipe (needs the tar exec reading pr) and
\* the deferred pw.Close() ran
TarDone(p) ==
  /\ Running
  /\ UNCHANGED notExec
  /\ tarp[p] = "run" /\ ep[p] = "tar"
  /\ tarp' = [tarp EXCEPT ![p] = "done"]
  /\ UNCHANGED <<variant, uploadSrc, commandArgs, rootDone, ctxDone, mainPc,
                 launched, wg, workerChan, received, result, ep, msg, hist, sc,
                 delivered, logCh, chClosed, lg, printMutex, out,
                 panicked>>

\* makeTar returned an error: pw.CloseWithError(err); cancel()
TarFail(p) ==
  /\ Running
  /\ UNCHANGED notExec
  /\ tarp[p] = "run"
  /\ tarp' = [tarp EXCEPT ![p] = "failed"]
  /\ ctxDone' = TRUE
  /\ UNCHANGED <<variant, uploadSrc, commandArgs, rootDone, mainPc, launched,
                 wg, workerChan, received, result, ep, msg, hist, sc,
                 delivered, logCh, chClosed, lg, printMutex, out,
                 panicked>>

\* chan variant: `logCh <- logEntry{...}` of a status text (a blocking send)
EpSend(p) ==
  /\ Running
  /\ UNCHANGED notExec
  /\ variant = "chan" /\ ep[p] = "report"
  /\ IF chClosed
       THEN /\ panicked' = TRUE
            /\ UNCHANGED <<logCh, ep, sc, hist, wg, workerChan>>
       ELSE /\ Len(logCh) < LogCap
            /\ logCh' = Append(logCh, logEntry(p, StatusText(msg[p]), "stderr"))
            /\ AfterReport(p)
            /\ UNCHANGED panicked
  /\ UNCHANGED <<variant, uploadSrc, commandArgs, rootDone, ctxDone, mainPc,
                 launched, received, result, msg, tarp, delivered, chClosed,
                 lg, printMutex, out>>

\* mutex variant: printMutex.Lock(), then fmt.Fprintf(os.Stderr, ...) of the
\* status line starts
EpLock(p) ==
  /\ Running
  /\ UNCHANGED notExec
  /\ variant = "mutex" /\ ep[p] = "report"
  /\ CanLock
  /\ printMutex' = EpTask(p)
  /\ out' = [out EXCEPT !["stderr"] = @ \o Frag1(FormatStatus(p, msg[p]))]
  /\ ep' = [ep EXCEPT ![p] = "w2"]
  /\ UNCHANGED <<variant, uploadSrc, commandArgs, rootDone, ctxDone, mainPc,
                 launched, wg, workerChan, received, result, msg, hist, tarp,
                 sc, delivered, logCh, chClosed, lg, panicked>>

\* mutex variant: the Fprintf completes, then printMutex.Unlock()
EpWrite(p) ==
  /\ Running
  /\ UNCHANGED notExec
  /\ variant = "mutex" /\ ep[p] = "w2"
  /\ out' = [out EXCEPT !["stderr"] = @ \o Frag2(FormatStatus(p, msg[p]))]
  /\ printMutex' = NoTask
  /\ AfterReport(p)
  /\ UNCHANGED <<variant, uploadSrc, commandArgs, rootDone, ctxDone, mainPc,
                 launched, received, result, msg, tarp, delivered, logCh,
                 chClosed, lg, panicked>>

\* the remote command writes one line to pwOut / pwErr; an io.Pipe write
\* completes when the reader (the scanner) has taken the bytes
ExecWrite(p, s) ==
  /\ Running
  /\ UNCHANGED notExec
  /\ ep[p] = "cmd" /\ sc[p][s] = "read"
  /\ delivered[p]["stdout"] + delivered[p]["stderr"] < MaxLines
  /\ delivered' = [delivered EXCEPT ![p][s] = @ + 1]
  /\ sc' = [sc EXCEPT ![p][s] = "send"]
  /\ UNCHANGED <<variant, uploadSrc, commandArgs, rootDone, ctxDone, mainPc,
                 launched, wg, workerChan, received, result, ep, msg, hist,
                 tarp, logCh, chClosed, lg, printMutex, out, panicked>>

\* pwOut.Close() / pwErr.Close(): a logStream blocked in scanner.Scan() gets
\* EOF and returns; one that still holds a line goes on with it
CloseWriters(q) == [s \in Streams |-> IF q[s] = "read" THEN "done" ELSE q[s]]

\* the command execCmd returns; pwOut.Close(); pwErr.Close()
CmdReturn(p, r) ==
  /\ Running
  /\ UNCHANGED notExec
  /\ ep[p] = "cmd"
  /\ hist' = [hist EXCEPT ![p] = SetRes(@, r)]
  /\ sc' = [sc EXCEPT ![p] = CloseWriters(@)]
  /\ IF r = "err"
       THEN /\ ep' = [ep EXCEPT ![p] = "report"]
            /\ msg' = [msg EXCEPT ![p] = "Command Error: "]
            /\ UNCHANGED <<wg, workerChan>>
       ELSE /\ ep' = [ep EXCEPT ![p] = "done"]
            /\ wg' = IF variant = "chan" THEN wg - 1 ELSE wg
            /\ workerChan' = IF variant = "mutex" THEN workerChan + 1
                                                  ELSE workerChan
            /\ UNCHANGED msg
  /\ UNCHANGED <<variant, uploadSrc, commandArgs, rootDone, ctxDone, mainPc,
                 launched, received, result, tarp, delivered, logCh,
                 chClosed, lg, printMutex, out, panicked>>

\* pwOut / pwErr is closed once the endpoint goroutine is past the exec
PipeClosed(p) == ep[p] \in {"report", "w2", "done"}

\* the next scanner.Scan() of a logStream that has passed on its line: more
\* input can come while the pipe is open, EOF once it is closed
ScanAgain(p) == IF PipeClosed(p) THEN "done" ELSE "read"

\* chan variant, logStream's select: the send case
ScanSend(p, s) ==
  /\ Running
  /\ UNCHANGED notExec
  /\ variant = "chan" /\ sc[p][s] = "send"
  /\ IF chClosed
       THEN /\ panicked' = TRUE
            /\ UNCHANGED <<logCh, sc>>
       ELSE /\ Len(logCh) < LogCap
            /\ logCh' = Append(logCh,
                               logEntry(p, LineText(p, s, delivered[p][s]), s))
            /\ sc' = [sc EXCEPT ![p][s] = ScanAgain(p)]
            /\ UNCHANGED panicked
  /\ UNCHANGED <<variant, uploadSrc, commandArgs, rootDone, ctxDone, mainPc,
                 launched, wg, workerChan, received, result, ep, msg, hist,
                 tarp, delivered, chClosed, lg, printMutex, out>>

\* chan variant, logStream's select: `case <-ctx.Done(): return`
ScanCtxDone(p, s) ==
  /\ Running
  /\ UNCHANGED notExec
  /\ variant = "chan" /\ sc[p][s] = "send" /\ ctxDone
  /\ sc' = [sc EXCEPT ![p][s] = "done"]
  /\ UNCHANGED <<variant, uploadSrc, commandArgs, rootDone, ctxDone, mainPc,
                 launched, wg, workerChan, received, result, ep, msg, hist,
                 tarp, delivered, logCh, chClosed, lg, printMutex, out,
                 panicked>>

\* mutex variant, logStream: mu.Lock(), then the Fprintf starts
ScanLock(p, s) ==
  /\ Running
  /\ UNCHANGED notExec
  /\ variant = "mutex" /\ sc[p][s] = "send"
  /\ CanLock
  /\ printMutex' = ScTask(p, s)
  /\ out' = [out EXCEPT ![s] = @ \o
               Frag1(FormatLine(Prefix(p), LineText(p, s, delivered[p][s])))]
  /\ sc' = [sc EXCEPT ![p][s] = "w2"]
  /\ UNCHANGED <<variant, uploadSrc, commandArgs, rootDone, ctxDone, mainPc,
                 launched, wg, workerChan, received, result, ep, msg, hist,
                 tarp, delivered, logCh, chClosed, lg, panicked>>

\* mutex variant, logStream: fmt.Fprintf(out, "%s %s\n", prefix, text)
\* completes, then mu.Unlock()
ScanWrite(p, s) ==
  /\ Running
  /\ UNCHANGED notExec
  /\ variant = "mutex" /\ sc[p][s] = "w2"
  /\ out' = [out EXCEPT ![s] = @ \o
               Frag2(FormatLine(Prefix(p), LineText(p, s, delivered[p][s])))]
  /\ sc' = [sc EXCEPT ![p][s] = ScanAgain(p)]
  /\ printMutex' = NoTask
  /\ UNCHANGED <<variant, uploadSrc, commandArgs, rootDone, ctxDone, mainPc,
                 launched, wg, workerChan, received, result, ep, msg, hist,
                 tarp, delivered, logCh, chClosed, lg, panicked>>

\* logger: `for entry := range ch` receives an entry and writes it with
\* fmt.Fprintf(entry.out, "%s %s\n", entry.prefix, entry.text)
LoggerRecv ==
  /\ Running
  /\ UNCHANGED notExec
  /\ variant = "chan" /\ lg = "recv" /\ logCh # <<>>
  /\ logCh' = Tail(logCh)
  /\ out' = [out EXCEPT ![Head(logCh).out] = @ \o
               FormatLine(Head(logCh).prefix, Head(logCh).text)]
  /\ UNCHANGED <<variant, uploadSrc, commandArgs, rootDone, ctxDone, mainPc,
                 launched, wg, workerChan, received, result, ep, msg, hist,
                 tarp, sc, delivered, chClosed, lg, printMutex, panicked>>

\* logger: the range loop ends on the closed, drained channel
LoggerExit ==
  /\ Running
  /\ UNCHANGED notExec
  /\ variant = "chan" /\ lg = "recv" /\ logCh = <<>> /\ chClosed
  /\ lg' = "signal"
  /\ UNCHANGED <<variant, uploadSrc, commandArgs, rootDone, ctxDone, mainPc,
                 launched, wg, workerChan, received, result, ep, msg, hist,
                 tarp, sc, delivered, logCh, chClosed, printMutex, out,
                 panicked>>

Results == {"ok", "err"}

ExecNext ==
  \/ MainLaunch
  \/ MainClose
  \/ MainReturn
  \/ MainSelect
  \/ RootCancel
  \/ \E p \in PodSet, r \in Results : MkdirReturn(p, r)
  \/ \E p \in PodSet, r \in Results : TarReturn(p, r)
  \/ \E p \in PodSet : TarDone(p)
  \/ \E p \in PodSet : TarFail(p)
  \/ \E p \in PodSet : EpSend(p)
  \/ \E p \in PodSet : EpLock(p)
  \/ \E p \in PodSet : EpWrite(p)
  \/ \E p \in PodSet, s \in Streams : ExecWrite(p, s)
  \/ \E p \in PodSet, r \in Results : CmdReturn(p, r)
  \/ \E p \in PodSet, s \in Streams : ScanSend(p, s)
  \/ \E p \in PodSet, s \in Streams : ScanCtxDone(p, s)
  \/ \E p \in PodSet, s \in Streams : ScanLock(p, s)
  \/ \E p \in PodSet, s \in Streams : ScanWrite(p, s)
  \/ LoggerRecv
  \/ LoggerExit

vars == <<execVars, syncVars, agentVars, restVars>>

Init == ExecInit /\ SyncIdle /\ AgentIdle /\ RestIdle
Next == ExecNext
Spec == Init /\ [][Next]_vars

\* ================================================================ SyncPods
\* Part II: SyncPods and SyncLocalToLeader of pkg/cdc.  Pods are numbered
\* in the order of the pods slice, so pod 1 is the leader pods[0] and the
\* pods 2..npods are pods[1:].  Text is a sequence of tokens, in which
\* ":" is a token of its own, so that strings.Split and net.JoinHostPort
\* are computed as the library computes them.

Leader == 1
Peers == 2..npods

HubBanner == "Hub listening on"

\* what the hub exec may write on its stdout, one line at a time
HubLines ==
  { <<HubBanner, " ", "[", ":", ":", "]", ":", "38573">>,
    <<HubBanner, " ", ":", "12345">>,
    <<HubBanner, " ", ":">>,
    <<HubBanner, " ", "[", ":", ":", "]">>,
    <<HubBanner>>,
    <<"I1106 11", ":", "14 ", HubBanner>>,
    <<"starting">> }

\* fmt.Printf("Hub listening on %s\n", listener.Addr().String()): the
\* banner, an address, and after the last colon a port
Ports == {"38573", "12345"}
Announces(line) ==
  \E n \in 1..Len(line) :
    /\ line[n] = HubBanner
    /\ n < Len(line) - 1
    /\ line[Len(line) - 1] = ":"
    /\ line[Len(line)] \in Ports

\* leader.Status.PodIP: unset, IPv4, IPv6
LeaderIPs == { <<>>, <<"10.0.0.1">>, <<"fd00", ":", ":", "1">> }

Contains(line, tok) == \E n \in 1..Len(line) : line[n] = tok

\* strings.Split(line, sep)
RECURSIVE Split(_, _)
Split(line, sep) ==
  IF ~Contains(line, sep) THEN <<line>>
  ELSE LET n == CHOOSE n \in 1..Len(line) :
                  /\ line[n] = sep
                  /\ \A m \in 1..(n - 1) : line[m] # sep
       IN  <<SubSeq(line, 1, n - 1)>> \o
           Split(SubSeq(line, n + 1, Len(line)), sep)

\* net.JoinHostPort(host, port)
JoinHostPort(host, port) ==
  IF Contains(host, ":") \/ Contains(host, "%")
  THEN <<"[">> \o host \o <<"]", ":">> \o port
  ELSE host \o <<":">> \o port

\* fmt.Sprintf("http://%s", net.JoinHostPort(leaderIP, hubPort))
HubURL(ip, port) == <<"http://">> \o JoinHostPort(ip, port)

CleanupLeaderMut == TRUE
\* cleanupLeader := len(pods) == 1
CleanupLeader == npods = 1

\* the command lines SyncPods hands to ExecCmd, and the pod they go to
CheckCmd == [pod |-> Leader, mode |-> "check", cleanup |-> FALSE,
             tracker |-> <<>>]
IngestCmd(cleanup) == [pod |-> Leader, mode |-> "ingest",
                       cleanup |-> cleanup, tracker |-> <<>>]
HubCmd == [pod |-> Leader, mode |-> "hub", cleanup |-> FALSE,
           tracker |-> <<>>]
PeerCmdMut(p, url) == [pod |-> p, mode |-> "peer", cleanup |-> FALSE,
                       tracker |-> url]
PeerCmd(p, url) == [pod |-> p, mode |-> "peer", cleanup |-> TRUE,
                    tracker |-> url]

\* an ExecCmd call in flight
Issue(cmd) == [pod |-> cmd.pod, mode |-> cmd.mode, cleanup |-> cmd.cleanup,
               tracker |-> cmd.tracker, res |-> "run"]

\* the ExecCmd call of that mode on pod p returns r
Returned(h, p, mode, r) ==
  [n \in 1..Len(h) |->
     IF h[n].pod = p /\ h[n].mode = mode /\ h[n].res = "run"
     THEN [h[n] EXCEPT !.res = r] ELSE h[n]]

\* an error of SyncPods; pod is the peer it names, 0 when it names none
Err(kind) == [kind |-> kind, pod |-> 0]
NilErr == Err("nil")

SyncInit ==
  /\ ExecIdle
  /\ AgentIdle /\ RestIdle
  /\ npods \in 0..(MaxPeers + 1)
  /\ leaderIP \in LeaderIPs
  /\ syncPc = "start" /\ syncResult = Err("none")
  /\ tmpDir = "none" /\ execHistory = <<>> /\ hub = "none" /\ hubEmitted = 0
  /\ hubAnnounced = FALSE /\ missingHashes = <<>>
  /\ hubPort = <<>> /\ hubURL = <<>> /\ portLine = NoLine
  /\ stdinClosed = FALSE
  /\ peers = [p \in Pods |-> "none"]
  /\ errCh = <<>>

\* SyncPods returns e; the deferred stdinWriter.Close() and cancelHub() run
\* when the function got as far as registering them
SyncReturn(e) ==
  /\ syncPc' = "returned"
  /\ syncResult' = e
  /\ stdinClosed' = (hub # "none")

RemovedTmpMut(dir) == dir
\* defer func() { _ = os.RemoveAll(tmpDir) }(), once os.MkdirTemp has
\* made the directory
RemovedTmp(dir) == IF dir = "exists" THEN "removed" ELSE dir

\* SyncLocalToLeader fails with e, and SyncPods wraps and returns it
LeaderFailed(e) ==
  /\ SyncReturn(e)
  /\ tmpDir' = RemovedTmp(tmpDir)

\* len(pods) == 0, else SyncLocalToLeader up to os.MkdirTemp
SyncStart(ok) ==
  /\ syncPc = "start"
  /\ IF npods = 0
     THEN /\ SyncReturn(Err("no pods"))
          /\ UNCHANGED tmpDir
     ELSE IF ok
     THEN /\ syncPc' = "chunk"
          /\ tmpDir' = "exists"
          /\ UNCHANGED <<syncResult, stdinClosed>>
     ELSE LeaderFailed(Err("temp dir"))
  /\ UNCHANGED <<npods, leaderIP, execHistory, hub, hubEmitted, hubAnnounced,
                 missingHashes, hubPort,
                 hubURL, portLine, peers, errCh>>
  /\ UNCHANGED notSync

\* GenerateManifest returns; on success checkRemote issues the check exec
GenerateDone(r) ==
  /\ syncPc = "chunk"
  /\ IF r = "ok"
     THEN /\ syncPc' = "check"
          /\ execHistory' = Append(execHistory, Issue(CheckCmd))
          /\ UNCHANGED <<syncResult, stdinClosed, tmpDir>>
     ELSE /\ LeaderFailed(Err("chunking"))
          /\ UNCHANGED execHistory
  /\ UNCHANGED <<npods, leaderIP, hub, hubEmitted, hubAnnounced,
                 missingHashes, hubPort, hubURL,
                 portLine, peers, errCh>>
  /\ UNCHANGED notSync

\* the check exec returns r, its stdout decodes as a list of hashes,
\* missing, or not; on success ingestRemote issues the ingest exec
CheckReturn(r, decoded, missing) ==
  /\ syncPc = "check"
  /\ IF r = "ok" /\ decoded
     THEN /\ syncPc' = "ingest"
          /\ missingHashes' = missing
          /\ execHistory' =
               Append(Returned(execHistory, Leader, "check", r),
                      Issue(IngestCmd(CleanupLeader)))
          /\ UNCHANGED <<syncResult, stdinClosed, tmpDir>>
     ELSE /\ LeaderFailed(Err("remote check"))
          /\ execHistory' = Returned(execHistory, Leader, "check", r)
          /\ UNCHANGED missingHashes
  /\ UNCHANGED <<npods, leaderIP, hub, hubEmitted, hubAnnounced, hubPort,
                 hubURL, portLine, peers, errCh>>
  /\ UNCHANGED notSync

\* the ingest exec returns r: SyncLocalToLeader returns, and with more
\* than one pod SyncPods starts the goroutine of the hub exec
IngestReturn(r) ==
  /\ syncPc = "ingest"
  /\ execHistory' = Returned(execHistory, Leader, "ingest", r)
  /\ IF r # "ok"
     THEN /\ LeaderFailed(Err("remote ingest"))
          /\ UNCHANGED hub
     ELSE IF npods = 1
     THEN /\ LeaderFailed(NilErr)
          /\ UNCHANGED hub
     ELSE /\ syncPc' = "scan"
          /\ tmpDir' = RemovedTmp(tmpDir)
          /\ hub' = "spawned"
          /\ UNCHANGED <<syncResult, stdinClosed>>
  /\ UNCHANGED <<npods, leaderIP, hubEmitted, hubAnnounced,
                 missingHashes, hubPort, hubURL, portLine,
                 peers, errCh>>
  /\ UNCHANGED notSync

\* the hub goroutine calls ExecCmd
HubStart ==
  /\ hub = "spawned"
  /\ hub' = "running"
  /\ execHistory' = Append(execHistory, Issue(HubCmd))
  /\ UNCHANGED <<npods, leaderIP, syncPc, syncResult, tmpDir, hubEmitted, hubAnnounced,
                 missingHashes, hubPort, hubURL, portLine, stdinClosed, peers, errCh>>
  /\ UNCHANGED notSync

\* the hub exec writes a line into the pipe.  The write completes when a
\* reader takes it: the scanner loop of SyncPods, which looks for the
\* port, or afterwards the goroutine that copies the rest to io.Discard.
HubWrite(line) ==
  /\ hub = "running"
  /\ hubEmitted < MaxHubLines
  /\ syncPc \in {"scan", "waitPeers", "returned"}
  /\ hubEmitted' = hubEmitted + 1
  /\ hubAnnounced' = (hubAnnounced \/ Announces(line))
  /\ LET parts == Split(line, ":")
     IN  IF syncPc = "scan" /\ Contains(line, HubBanner) /\ Len(parts) > 1
         THEN /\ hubPort' = parts[Len(parts)]
              /\ portLine' = line
              /\ syncPc' = "scanned"
         ELSE UNCHANGED <<hubPort, portLine, syncPc>>
  /\ UNCHANGED <<npods, leaderIP, syncResult, tmpDir, execHistory, hub,
                 missingHashes, hubURL, stdinClosed, peers, errCh>>
  /\ UNCHANGED notSync

\* the hub exec returns and the goroutine closes the pipe, which ends the
\* scanner loop if it is still reading
HubReturn(r) ==
  /\ hub = "running"
  /\ hub' = "returned"
  /\ execHistory' = Returned(execHistory, Leader, "hub", r)
  /\ syncPc' = IF syncPc = "scan" THEN "scanned" ELSE syncPc
  /\ UNCHANGED <<npods, leaderIP, syncResult, tmpDir, hubEmitted, hubAnnounced,
                 missingHashes, hubPort,
                 hubURL, portLine, stdinClosed, peers, errCh>>
  /\ UNCHANGED notSync

PortMissingMut(port) == FALSE
\* hubPort == ""
PortMissing(port) == port = <<>>

\* after the scanner loop: the two checks, hubURL, and the peer goroutines
SyncLaunch ==
  /\ syncPc = "scanned"
  /\ IF PortMissing(hubPort)
     THEN /\ SyncReturn(Err("no hub port"))
          /\ UNCHANGED <<hubURL, peers>>
     ELSE IF leaderIP = <<>>
     THEN /\ SyncReturn(Err("no leader IP"))
          /\ UNCHANGED <<hubURL, peers>>
     ELSE /\ hubURL' = HubURL(leaderIP, hubPort)
          /\ peers' = [p \in Pods |-> IF p \in Peers THEN "spawned"
                                      ELSE "none"]
          /\ syncPc' = "waitPeers"
          /\ UNCHANGED <<syncResult, stdinClosed>>
  /\ UNCHANGED <<npods, leaderIP, tmpDir, execHistory, hub, hubEmitted, hubAnnounced,
                 missingHashes, hubPort, portLine, errCh>>
  /\ UNCHANGED notSync

\* the goroutine of peer p calls ExecCmd
PeerStart(p) ==
  /\ peers[p] = "spawned"
  /\ peers' = [peers EXCEPT ![p] = "running"]
  /\ execHistory' = Append(execHistory, Issue(PeerCmd(p, hubURL)))
  /\ UNCHANGED <<npods, leaderIP, syncPc, syncResult, tmpDir, hub,
                 hubEmitted, hubAnnounced,
                 missingHashes, hubPort, hubURL, portLine, stdinClosed, errCh>>
  /\ UNCHANGED notSync

\* the exec of peer p returns r; an error goes to errCh; wg.Done()
PeerReturn(p, r) ==
  /\ peers[p] = "running"
  /\ peers' = [peers EXCEPT ![p] = "done"]
  /\ execHistory' = Returned(execHistory, p, "peer", r)
  /\ errCh' = IF r = "ok" THEN errCh ELSE Append(errCh, p)
  /\ UNCHANGED <<npods, leaderIP, syncPc, syncResult, tmpDir, hub,
                 hubEmitted, hubAnnounced,
                 missingHashes, hubPort, hubURL, portLine, stdinClosed>>
  /\ UNCHANGED notSync

AllPeersDoneMut == \E p \in Peers : peers[p] = "done"
\* wg.Wait() returns: every peer goroutine has run wg.Done()
AllPeersDone == \A p \in Peers : peers[p] = "done"

\* wg.Wait(), close(errCh), and the first error of errCh or nil
SyncWait ==
  /\ syncPc = "waitPeers"
  /\ AllPeersDone
  /\ SyncReturn(IF Len(errCh) > 0
                THEN [kind |-> "peer failed", pod |-> Head(errCh)]
                ELSE NilErr)
  /\ errCh' = IF Len(errCh) > 0 THEN Tail(errCh) ELSE errCh
  /\ UNCHANGED <<npods, leaderIP, tmpDir, execHistory, hub, hubEmitted, hubAnnounced,
                 missingHashes, hubPort, hubURL, portLine, peers>>
  /\ UNCHANGED notSync

SyncNext ==
  \/ \E ok \in BOOLEAN : SyncStart(ok)
  \/ \E r \in Results : GenerateDone(r)
  \/ \E r \in Results, decoded \in BOOLEAN, missing \in Manifests :
       CheckReturn(r, decoded, missing)
  \/ \E r \in Results : IngestReturn(r)
  \/ HubStart
  \/ \E line \in HubLines : HubWrite(line)
  \/ \E r \in Results : HubReturn(r)
  \/ SyncLaunch
  \/ \E p \in Pods : PeerStart(p)
  \/ \E p \in Pods, r \in Results : PeerReturn(p, r)
  \/ SyncWait

SyncSpec == SyncInit /\ [][SyncNext]_vars

\* ===================================================== claims, dispatcher
\* number of places where rec occurs in seq
Occurrences(rec, seq) ==
  Cardinality({n \in 1..(Len(seq) - Len(rec) + 1) :
                 SubSeq(seq, n, n + Len(rec) - 1) = rec})

\* the record a line of endpoint p on stream s must appear as
LineRecord(p, s, k) == FormatLine(Prefix(p), LineText(p, s, k))

\* the context was cancelled during the run (not by the deferred cancel)
CancelledInRun == rootDone \/ \E p \in PodSet : tarp[p] = "failed"

\* some execCmd of endpoint p returned an error
EndpointFailed(p) == \E n \in 1..Len(hist[p]) : hist[p][n].res = "err"

StatusMsgs == {"Mkdir Error: ", "Transfer Error: ", "Synced", "Command Error: "}

\* the status record of endpoint p as the running variant writes it
StatusRecord(p, m) ==
  IF variant = "chan" THEN FormatLine(Prefix(p), StatusText(m))
                      ELSE FormatStatus(p, m)

\* C1: when UploadAndExecuteOnPods has returned and its context was not
\* cancelled, every line a remote command delivered is in its sink exactly
\* once.
C1_NoLineLost ==
  (mainPc = "returned" /\ ~CancelledInRun) =>
    \A p \in PodSet : \A s \in Streams : \A k \in 1..delivered[p][s] :
      Occurrences(LineRecord(p, s, k), out[s]) = 1

\* C2: logCh is closed only after every endpoint task and every line-scanner
\* task has returned, no send is attempted on the closed channel, and the
\* drain task exits only after the close.
C2_CloseAfterProducers ==
  /\ chClosed => \A p \in PodSet :
                   /\ ep[p] \in {"idle", "done"}
                   /\ \A s \in Streams : sc[p][s] \in {"none", "done"}
  /\ ~panicked
  /\ lg \in {"signal", "done"} => chClosed

\* the records that may legitimately appear on sink s
SinkRecords(s) ==
  {LineRecord(p, s, k) : p \in PodSet, k \in 1..MaxLines}
    \cup (IF s = "stderr"
            THEN {StatusRecord(p, m) : p \in PodSet, m \in StatusMsgs}
            ELSE {})

\* the first fragments of the records whose write to sink s is under way
InProgress(s) ==
  {Frag1(LineRecord(p, s, delivered[p][s])) : p \in {q \in PodSet : sc[q][s] = "w2"}}
    \cup (IF s = "stderr"
            THEN {Frag1(FormatStatus(p, msg[p])) : p \in {q \in PodSet : ep[q] = "w2"}}
            ELSE {})

\* seq is a concatenation of whole records of S, possibly followed by the
\* begun part of one record of T
RECURSIVE Framed(_, _, _)
Framed(seq, S, T) ==
  \/ seq = <<>>
  \/ seq \in T
  \/ \E r \in S : /\ Len(r) <= Len(seq)
                  /\ SubSeq(seq, 1, Len(r)) = r
                  /\ Framed(SubSeq(seq, Len(r) + 1, Len(seq)), S, T)

\* tasks that are inside an Fprintf to a sink
Writers ==
  {EpTask(p) : p \in {q \in PodSet : ep[q] = "w2"}}
    \cup {ScTask(t[1], t[2]) :
            t \in {u \in PodSet \X Streams : sc[u[1]][u[2]] = "w2"}}

\* C3: every sink is a sequence of whole records "[<endpoint>] <text>\n" (a
\* line of endpoint p on stream s appears under p's prefix on sink s), and at
\* most one task is writing at a time, so no record is split by another.
C3_WholeRecords ==
  /\ \A s \in Streams : Framed(out[s], SinkRecords(s), InProgress(s))
  /\ Cardinality(Writers) <= 1

\* C3 witness: lines of two different endpoints are on the same sink
C3_Witness ==
  \E s \in Streams : \E k1, k2 \in 1..MaxLines :
    /\ Occurrences(LineRecord("a", s, k1), out[s]) = 1
    /\ Occurrences(LineRecord("b", s, k2), out[s]) = 1

\* C4: with an upload and a command requested, an endpoint's command exec
\* is issued only after its mkdir exec and its tar exec returned without
\* error.
C4_UploadBeforeCommand ==
  (uploadSrc /\ commandArgs) =>
    \A p \in PodSet : \A n \in 1..Len(hist[p]) :
      hist[p][n].cmd = "cmd" =>
        /\ \E m \in 1..(n - 1) : hist[p][m] = [cmd |-> "mkdir", res |-> "ok"]
        /\ \E m \in 1..(n - 1) : hist[p][m] = [cmd |-> "tar", res |-> "ok"]

\* C4 witness: one endpoint runs its command after a good upload while the
\* other one stopped at a failed upload
C4_Witness ==
  /\ uploadSrc /\ commandArgs
  /\ \E p, q \in PodSet :
       /\ Len(hist[p]) = 3 /\ hist[p][3].cmd = "cmd"
       /\ ep[q] = "done" /\ hist[q][Len(hist[q])].res = "err"
       /\ hist[q][Len(hist[q])].cmd \in {"mkdir", "tar"}

\* C5: a failure on one endpoint (mkdir, transfer, command or tar producer)
\* does not cancel the context shared with the other endpoints: while the
\* function runs, the context is cancelled only by the caller.
C5_NoSiblingCancel ==
  (ctxDone /\ mainPc # "returned") => rootDone

\* C6 as claimed: a failed upload or command on some endpoint makes
\* UploadAndExecuteOnPods return a non-nil error.
C6_NoPartialSuccess ==
  (mainPc = "returned" /\ \E p \in PodSet : EndpointFailed(p)) => result # "nil"

\* C6 amended: the returned error is the context's error and nothing else:
\* non-nil only if the context was cancelled during the run, nil whenever it
\* was not; and when nil is returned every endpoint failure has been written
\* to the error sink as that endpoint's status record.
C6_ContextErrorOnly ==
  mainPc = "returned" =>
    /\ result = "ctxErr" => CancelledInRun
    /\ ~CancelledInRun => result = "nil"
    /\ result = "nil" =>
         \A p \in PodSet : EndpointFailed(p) =>
           \E m \in StatusMsgs \ {"Synced"} :
             Occurrences(StatusRecord(p, m), out["stderr"]) = 1

\* C6 witness: nil is returned although an endpoint failed
C6_Witness ==
  /\ mainPc = "returned" /\ result = "nil"
  /\ \E p, q \in PodSet : EndpointFailed(p) /\ ~EndpointFailed(q) /\ ep[q] = "done"

\* C7: once the caller's context is cancelled the run does not die and what
\* it returns is the context's error.
C7_CancelReturnsCtxErr ==
  rootDone => /\ ~panicked
              /\ mainPc = "returned" => result = "ctxErr"

\* ======================================================= claims, SyncPods
CallsOf(p, mode) ==
  {n \in 1..Len(execHistory) :
     execHistory[n].pod = p /\ execHistory[n].mode = mode}
EveryExecSucceeded ==
  \A n \in 1..Len(execHistory) : execHistory[n].res = "ok"

\* exactly: check on L, ingest on L without -cleanup, hub on L, and one
\* peer with -cleanup on every follower, and nothing else
ExactCalls ==
  /\ Cardinality(CallsOf(Leader, "check")) = 1
  /\ Cardinality(CallsOf(Leader, "ingest")) = 1
  /\ \A n \in CallsOf(Leader, "ingest") : ~execHistory[n].cleanup
  /\ Cardinality(CallsOf(Leader, "hub")) = 1
  /\ CallsOf(Leader, "peer") = {}
  /\ \A p \in Peers :
       /\ Cardinality(CallsOf(p, "peer")) = 1
       /\ \A n \in CallsOf(p, "peer") : execHistory[n].cleanup
       /\ CallsOf(p, "check") \cup CallsOf(p, "ingest")
            \cup CallsOf(p, "hub") = {}
  /\ Len(execHistory) = npods + 2

\* the local steps of SyncLocalToLeader went through and the check
\* answered with a list of hashes
LeaderStepsPassed ==
  syncResult.kind \notin {"no pods", "temp dir", "chunking", "remote check"}

PortOf(line) ==
  LET last == CHOOSE n \in 1..Len(line) :
                  /\ line[n] = ":"
                  /\ \A m \in (n + 1)..Len(line) : line[m] # ":"
  IN  SubSeq(line, last + 1, Len(line))

\* a peer exec is started only after a line with the banner was read and
\* the port taken from it, and the hub only after the ingest returned
HubBeforePeers ==
  /\ \A n \in 1..Len(execHistory) :
       execHistory[n].mode = "peer" =>
         /\ portLine # NoLine
         /\ Contains(portLine, HubBanner)
         /\ Contains(portLine, ":")
         /\ hubPort = PortOf(portLine)
         /\ \E m \in 1..(n - 1) : execHistory[m].mode = "hub"
  /\ \A n \in 1..Len(execHistory) :
       execHistory[n].mode = "hub" =>
         \E m \in 1..(n - 1) :
           execHistory[m].mode = "ingest" /\ execHistory[m].res = "ok"

\* C9 as stated: no peer exec before the hub line was read and the port
\* extracted, the ingest returned before the hub exec started, and every
\* peer has -tracker equal to http://<leader IP>:<that port>.
C9_TrackerIsIPColonPort ==
  /\ HubBeforePeers
  /\ \A n \in 1..Len(execHistory) :
       execHistory[n].mode = "peer" =>
         execHistory[n].tracker =
           <<"http://">> \o leaderIP \o <<":">> \o PortOf(portLine)

\* C9 amended: the same order, and every peer has -tracker equal to
\* http://<host>:<that port>, where <host> is the leader IP, enclosed in
\* square brackets when it contains a colon (an IPv6 address).
C9_TrackerIsHostPort ==
  /\ HubBeforePeers
  /\ \A n \in 1..Len(execHistory) :
       execHistory[n].mode = "peer" =>
         execHistory[n].tracker =
           <<"http://">>
             \o (IF Contains(leaderIP, ":")
                 THEN <<"[">> \o leaderIP \o <<"]">> ELSE leaderIP)
             \o <<":">> \o PortOf(portLine)

C9_Witness ==
  /\ Contains(leaderIP, ":")
  /\ Len(portLine) > 4
  /\ \A p \in Peers : CallsOf(p, "peer") # {}
  /\ npods >= 3

\* C10: with one endpoint the ingest carries -cleanup and no hub or peer
\* exec is ever issued; with more than one endpoint the ingest on the
\* leader never carries -cleanup.
C10_CleanupOnlyWhenAlone ==
  /\ \A n \in 1..Len(execHistory) :
       execHistory[n].mode = "ingest" =>
         /\ execHistory[n].pod = Leader
         /\ execHistory[n].cleanup = (npods = 1)
  /\ npods = 1 =>
       /\ \A n \in 1..Len(execHistory) :
            execHistory[n].mode \in {"check", "ingest"}
       /\ hub = "none"
       /\ \A p \in Pods : peers[p] = "none"
       /\ (syncPc = "returned" /\ syncResult = NilErr) =>
            /\ Len(execHistory) = 2
            /\ execHistory[2].mode = "ingest" /\ execHistory[2].res = "ok"

C10_Witness ==
  /\ npods = 1
  /\ syncPc = "returned" /\ syncResult = NilErr
  /\ \E n \in 1..Len(execHistory) :
       execHistory[n].mode = "ingest" /\ execHistory[n].cleanup

\* the hub goroutine has called ExecCmd
HubExecStarted == hub \in {"running", "returned"}

PeerResults(p) == {execHistory[n].res : n \in CallsOf(p, "peer")}
PeersWereLaunched ==
  syncResult.kind = "peer failed" \/ (syncResult = NilErr /\ npods >= 2)

\* C12: when SyncPods returns after launching the peers, every peer exec
\* was issued once and has returned, whatever the other peers did; the
\* result is nil exactly when every peer exec succeeded, and otherwise an
\* error that names a peer whose exec failed.
C12_WaitsForEveryPeer ==
  /\ (syncPc = "returned" /\ PeersWereLaunched) =>
       /\ \A p \in Peers :
            /\ Cardinality(CallsOf(p, "peer")) = 1
            /\ PeerResults(p) \subseteq {"ok", "err"}
       /\ (syncResult = NilErr) = (\A p \in Peers : PeerResults(p) = {"ok"})
       /\ syncResult # NilErr =>
            /\ syncResult.pod \in Peers
            /\ PeerResults(syncResult.pod) = {"err"}
  /\ (syncPc = "returned" /\ \E p \in Peers : "err" \in PeerResults(p))
       => syncResult.kind = "peer failed"
  /\ syncPc = "waitPeers" => \A p \in Peers : peers[p] # "none"

C12_Witness ==
  /\ syncPc = "returned" /\ syncResult.kind = "peer failed"
  /\ \E p \in Peers : PeerResults(p) = {"ok"}
  /\ \E p \in Peers : PeerResults(p) = {"err"}

PeerExecs == {n \in 1..Len(execHistory) : execHistory[n].mode = "peer"}

\* C33: when the hub exec has ended without having written a line with
\* the banner followed by a port, SyncPods has started no peer exec and
\* returns an error; and the same when the leader has no IP.
C33_NoPeersWithoutPort ==
  /\ (hub = "returned" /\ ~hubAnnounced) =>
       /\ PeerExecs = {}
       /\ syncPc = "returned" => syncResult # NilErr
  /\ (leaderIP = <<>> /\ npods >= 2) =>
       /\ PeerExecs = {}
       /\ syncPc = "returned" => syncResult # NilErr

\* SyncLocalToLeader has returned
LeaderReturned ==
  npods >= 1 /\ syncPc \notin {"off", "start", "chunk", "check", "ingest"}

\* C34: SyncLocalToLeader issues the check exec first and the ingest exec
\* second, each once; the ingest is issued whatever list the check
\* answered, the empty one too; when the chunking or the check fails no
\* ingest is issued and an error is returned; and when it returns the
\* temporary chunks directory it made is gone.
C34_CheckThenIngestOnce ==
  /\ Cardinality(CallsOf(Leader, "check")) <= 1
  /\ Cardinality(CallsOf(Leader, "ingest")) <= 1
  /\ \A n \in CallsOf(Leader, "ingest") :
       \E m \in 1..(n - 1) :
         execHistory[m].mode = "check" /\ execHistory[m].res = "ok"
  /\ (LeaderReturned /\ LeaderStepsPassed) =>
       /\ Cardinality(CallsOf(Leader, "check")) = 1
       /\ Cardinality(CallsOf(Leader, "ingest")) = 1
  /\ (LeaderReturned /\ ~LeaderStepsPassed) =>
       /\ CallsOf(Leader, "ingest") = {}
       /\ syncPc = "returned" /\ syncResult # NilErr
  /\ LeaderReturned => tmpDir # "exists"

C34_Witness ==
  /\ LeaderReturned /\ syncResult = NilErr /\ syncPc = "returned"
  /\ missingHashes = <<>>
  /\ tmpDir = "removed"
  /\ \E n \in CallsOf(Leader, "ingest") : execHistory[n].res = "ok"


\* =================================================================== agent
\* Part III: the agent of agent/fsync/main.go, one specification for each
\* of its modes and helpers.

\* os.Stat(filepath.Join(chunksDir, hash)) finds a file
Exists(dir, name) == dir[name] # NoFile

\* ---------------------------------------------------------------- runCheck
\* the loop over m.Chunks: missing = append(missing, chunk.Hash)
RECURSIVE MissingFrom(_, _, _)
MissingFrom(m, dir, missing) ==
  IF m = <<>> THEN missing
  ELSE MissingFrom(Tail(m), dir,
                   IF Exists(dir, Chunk(Head(m))) THEN missing
                   ELSE Append(missing, Head(m)))

\* encoding/json of a []string that is not nil: ["h1","h2"]
RECURSIVE JSONElements(_)
JSONElements(list) ==
  IF Len(list) = 1 THEN <<list[1]>>
  ELSE <<list[1], ",">> \o JSONElements(Tail(list))
JSONArray(list) ==
  IF list = <<>> THEN <<"[", "]">>
  ELSE <<"[">> \o JSONElements(list) \o <<"]">>

\* json.NewEncoder(w).Encode(missing): missing is declared `var missing
\* []string` and is still nil when nothing was appended; a nil slice is
\* encoded as null
Encode(missing) ==
  (IF missing = <<>> THEN <<"null">> ELSE JSONArray(missing)) \o <<"\n">>

CheckInit ==
  /\ ExecIdle /\ SyncIdle /\ RestIdle
  /\ manifest \in Manifests
  /\ chunkDir \in DataDirs
  /\ inodes = FreshInodes
  /\ checkPc = "start"
  /\ checkIn \in BOOLEAN
  /\ checkWriter \in BOOLEAN
  /\ checkOut = <<>> /\ checkErr = "none"
  /\ PeerIdle /\ MirrorIdle /\ IngestIdle

\* runCheck(r, w, chunksDir)
RunCheck ==
  /\ checkPc = "start"
  /\ checkPc' = "done"
  /\ IF ~checkIn
     THEN /\ checkErr' = "failed to decode manifest from stdin"
          /\ checkOut' = checkOut
     ELSE IF ~checkWriter
     THEN /\ checkErr' = "failed to write missing chunks to stdout"
          /\ checkOut' = checkOut
     ELSE /\ checkErr' = "nil"
          /\ checkOut' = Encode(MissingFrom(manifest, chunkDir, <<>>))
  /\ UNCHANGED <<checkIn, checkWriter>>
  /\ UNCHANGED <<fsVars, peerVars, mirrorVars, ingestVars,
                 notAgent>>

CheckNext == RunCheck

CheckSpec == CheckInit /\ [][CheckNext]_vars

\* ----------------------------------------------------------------- runPeer
\* concurrency := 5
concurrency == 5
\* errCh := make(chan error, 1)
ErrChCap == 1

Downloads == 1..MaxChunks
NoError == [kind |-> "nil", hash |-> ""]
DownloadError(kind, h) == [kind |-> kind, hash |-> h]

\* what http.Get(baseURL + "/chunks/" + hash) may come back with: an
\* error, a status other than 200, or 200 and a body
Responses == {"error", "status"} \cup Blobs

PeerInit ==
  /\ ExecIdle /\ SyncIdle /\ RestIdle /\ CheckIdle
  /\ manifest \in Manifests
  /\ chunkDir \in DataDirs
  /\ inodes = FreshInodes
  /\ peerPc = "poll"
  /\ peerCtx = FALSE
  /\ lastPoll = "none"
  /\ peerFiles \in {{ChunksDir}, {ChunksDir, ManifestFile}}
  /\ peerCleanup \in BOOLEAN
  /\ peerIdx = 1
  /\ peerErr = NoError
  /\ dl = [n \in Downloads |-> "none"]
  /\ body = [n \in Downloads |-> NoBytes]
  /\ handle = [n \in Downloads |-> NoFile]
  /\ peerErrCh = <<>>
  /\ requests = <<>>
  /\ hadChunks = {h \in Hashes : chunkDir[Chunk(h)] # NoFile}
  /\ payload = <<>>
  /\ peerMirrored = <<>>
  /\ MirrorIdle /\ IngestIdle

\* what http.Get(trackerURL + "/manifest") may come back with: an error,
\* a status other than 200, 200 and a body that does not decode, or 200
\* and a manifest
PollResponses == {"error", "status", "garbage", "manifest"}

\* a signal ends ctx; runPeer reads ctx nowhere but in its poll loop
PeerCancel ==
  /\ peerPc \in {"poll", "get"}
  /\ ~peerCtx
  /\ peerCtx' = TRUE
  /\ UNCHANGED <<peerPc, lastPoll, peerFiles, peerCleanup, peerIdx, peerErr,
                 dl, body, handle, peerErrCh, requests, hadChunks, payload,
                 peerMirrored>>
  /\ UNCHANGED <<fsVars, checkVars, mirrorVars, ingestVars,
                 notAgent>>

\* the select of the poll loop takes `case <-ctx.Done()`
PeerCtxDone ==
  /\ peerPc = "poll"
  /\ peerCtx
  /\ peerPc' = "returned"
  /\ peerErr' = DownloadError("context canceled", "")
  /\ UNCHANGED <<peerCtx, lastPoll, peerFiles, peerCleanup, peerIdx, dl,
                 body, handle, peerErrCh, requests, hadChunks, payload,
                 peerMirrored>>
  /\ UNCHANGED <<fsVars, checkVars, mirrorVars, ingestVars,
                 notAgent>>

\* the select of the poll loop takes `case <-ticker.C`
PeerTick ==
  /\ peerPc = "poll"
  /\ peerPc' = "get"
  /\ UNCHANGED <<peerCtx, lastPoll, peerFiles, peerCleanup, peerIdx, peerErr,
                 dl, body, handle, peerErrCh, requests, hadChunks, payload,
                 peerMirrored>>
  /\ UNCHANGED <<fsVars, checkVars, mirrorVars, ingestVars,
                 notAgent>>

\* the GET of the manifest comes back: a manifest ends the poll loop,
\* anything else leads back to the select
PeerPoll(resp) ==
  /\ peerPc = "get"
  /\ lastPoll' = resp
  /\ peerPc' = IF resp = "manifest" THEN "loop" ELSE "poll"
  /\ UNCHANGED <<peerCtx, peerFiles, peerCleanup, peerIdx, peerErr, dl, body,
                 handle, peerErrCh, requests, hadChunks, payload,
                 peerMirrored>>
  /\ UNCHANGED <<fsVars, checkVars, mirrorVars, ingestVars,
                 notAgent>>

InFlight == {n \in Downloads : dl[n] \in {"get", "copy", "verify"}}

NeedsDownloadMut(dir, h) == TRUE
\* _, err := os.Stat(chunkPath); os.IsNotExist(err)
NeedsDownload(dir, h) == ~Exists(dir, Chunk(h))

\* one iteration of `for _, chunk := range manifest.Chunks`: return the
\* error that is in errCh, or start the download of a chunk that is not
\* in the chunks directory
PeerIter ==
  /\ peerPc = "loop"
  /\ peerIdx <= Len(manifest)
  /\ IF peerErrCh # <<>>
     THEN /\ peerPc' = "returned"
          /\ peerErr' = Head(peerErrCh)
          /\ peerErrCh' = Tail(peerErrCh)
          /\ UNCHANGED <<peerIdx, dl>>
     ELSE /\ IF NeedsDownload(chunkDir, manifest[peerIdx])
             THEN /\ Cardinality(InFlight) < concurrency
                  /\ dl' = [dl EXCEPT ![peerIdx] = "get"]
             ELSE UNCHANGED dl
          /\ peerIdx' = peerIdx + 1
          /\ UNCHANGED <<peerPc, peerErr, peerErrCh>>
  /\ UNCHANGED <<peerCtx, lastPoll, peerFiles, peerCleanup, body, handle,
                 requests, hadChunks, payload,
                 peerMirrored>>
  /\ UNCHANGED <<fsVars, checkVars, mirrorVars, ingestVars,
                 notAgent>>

\* the goroutine of download n fails with an error of that kind, which
\* dl[n] keeps: the error goes to errCh if there is room, and is dropped
\* if not
Report(n, kind) ==
  /\ dl' = [dl EXCEPT ![n] = kind]
  /\ peerErrCh' = IF Len(peerErrCh) < ErrChCap
                  THEN Append(peerErrCh, DownloadError(kind, manifest[n]))
                  ELSE peerErrCh

\* os.Remove(name)
Remove(dir, name) == [dir EXCEPT ![name] = NoFile]

\* downloadChunk up to os.Create(tmpDest): the GET, the status check, and
\* the temp file, which is truncated when it is there already
DlGet(n, resp, opened) ==
  /\ dl[n] = "get"
  /\ requests' = Append(requests, manifest[n])
  /\ IF resp \notin Blobs
     THEN /\ Report(n, resp)
          /\ UNCHANGED <<body, handle, chunkDir, inodes>>
     ELSE IF ~opened
     THEN /\ Report(n, "failed to create temp file")
          /\ UNCHANGED <<body, handle, chunkDir, inodes>>
     ELSE LET tmp == Tmp(manifest[n])
              ino == IF Exists(chunkDir, tmp) THEN chunkDir[tmp]
                     ELSE NewInode(n)
          IN  /\ dl' = [dl EXCEPT ![n] = "copy"]
              /\ body' = [body EXCEPT ![n] = resp]
              /\ handle' = [handle EXCEPT ![n] = ino]
              /\ chunkDir' = [chunkDir EXCEPT ![tmp] = ino]
              /\ inodes' = [inodes EXCEPT ![ino] = NoBytes]
              /\ UNCHANGED peerErrCh
  /\ UNCHANGED <<manifest, peerPc, peerCtx, lastPoll, peerFiles, peerCleanup,
                 peerIdx, peerErr, hadChunks, payload,
                 peerMirrored>>
  /\ UNCHANGED <<checkVars, mirrorVars, ingestVars,
                 notAgent>>

\* io.Copy(out, reader) into the open temp file, and out.Close()
DlCopy(n, copied) ==
  /\ dl[n] = "copy"
  /\ IF copied
     THEN /\ inodes' = [inodes EXCEPT ![handle[n]] = body[n]]
          /\ dl' = [dl EXCEPT ![n] = "verify"]
          /\ UNCHANGED <<chunkDir, peerErrCh>>
     ELSE /\ chunkDir' = Remove(chunkDir, Tmp(manifest[n]))
          /\ Report(n, "failed to write chunk")
          /\ UNCHANGED inodes
  /\ UNCHANGED <<manifest, peerPc, peerCtx, lastPoll, peerFiles, peerCleanup,
                 peerIdx, peerErr, body, handle, requests, hadChunks,
                 payload,
                 peerMirrored>>
  /\ UNCHANGED <<checkVars, mirrorVars, ingestVars,
                 notAgent>>

\* the hash of the bytes that came through the TeeReader is compared with
\* the chunk's hash, then os.Rename(tmpDest, dest)
DlVerify(n, renamed) ==
  /\ dl[n] = "verify"
  /\ LET h == manifest[n]
     IN  IF Sha(body[n]) # h
         THEN /\ chunkDir' = Remove(chunkDir, Tmp(h))
              /\ Report(n, "integrity check failed")
         ELSE IF renamed /\ Exists(chunkDir, Tmp(h))
         THEN /\ chunkDir' = [chunkDir EXCEPT ![Chunk(h)] = chunkDir[Tmp(h)],
                                              ![Tmp(h)] = NoFile]
              /\ dl' = [dl EXCEPT ![n] = "done"]
              /\ UNCHANGED peerErrCh
         ELSE /\ chunkDir' = Remove(chunkDir, Tmp(h))
              /\ Report(n, "failed to rename chunk")
  /\ UNCHANGED <<manifest, inodes, peerPc, peerCtx, lastPoll, peerFiles,
                 peerCleanup, peerIdx, peerErr, body, handle, requests,
                 hadChunks, payload,
                 peerMirrored>>
  /\ UNCHANGED <<checkVars, mirrorVars, ingestVars,
                 notAgent>>

DownloadsDoneMut == TRUE
\* wg.Wait() returns
DownloadsDone == InFlight = {}

\* the chunks in manifest order, as applyManifest reads them
Reassembled ==
  [n \in 1..Len(manifest) |->
     IF Exists(chunkDir, Chunk(manifest[n]))
     THEN inodes[chunkDir[Chunk(manifest[n])]] ELSE NoBytes]

PeerCleanupMut == FALSE
\* if cleanup
PeerCleanup == peerCleanup

MirrorRunsMut(applyOK, mirror) == mirror
\* created, err := applyManifest(...); if err != nil { return ... };
\* if mirror { cleanupExtraneousFiles(dataDir, created) }
MirrorRuns(applyOK, mirror) == applyOK /\ mirror

\* after the loop: wg.Wait(), close(errCh) and the error in it, if any;
\* else applyManifest, which writes the reassembled stream to the
\* destination, with -mirror the mirror step on the list applyManifest
\* made of that stream, which leaves manifest.json and krun-chunks alone,
\* and with -cleanup the removal of both
PeerFinish(applied, mirror) ==
  /\ peerPc = "loop"
  /\ peerIdx > Len(manifest)
  /\ DownloadsDone
  /\ peerPc' = "returned"
  /\ IF peerErrCh # <<>>
     THEN /\ peerErr' = Head(peerErrCh)
          /\ peerErrCh' = Tail(peerErrCh)
          /\ UNCHANGED <<payload, chunkDir, peerFiles, peerMirrored>>
     ELSE IF applied < Len(manifest)
              \/ \E n \in 1..Len(manifest) :
                    ~Exists(chunkDir, Chunk(manifest[n]))
     THEN /\ peerErr' = DownloadError("failed to apply manifest", "")
          /\ payload' = SubSeq(Reassembled, 1, applied)
          /\ peerMirrored' = IF MirrorRuns(FALSE, mirror)
                             THEN Append(peerMirrored, payload')
                             ELSE peerMirrored
          /\ UNCHANGED <<peerErrCh, chunkDir, peerFiles>>
     ELSE /\ peerErr' = NoError
          /\ payload' = Reassembled
          /\ peerMirrored' = IF MirrorRuns(TRUE, mirror)
                             THEN Append(peerMirrored, payload')
                             ELSE peerMirrored
          /\ chunkDir' = IF PeerCleanup
                         THEN [f \in ChunkNames |-> NoFile] ELSE chunkDir
          /\ peerFiles' = IF PeerCleanup THEN {} ELSE peerFiles
          /\ UNCHANGED peerErrCh
  /\ UNCHANGED <<manifest, inodes, peerCtx, lastPoll, peerCleanup, peerIdx,
                 dl, body, handle, requests, hadChunks>>
  /\ UNCHANGED <<checkVars, mirrorVars, ingestVars,
                 notAgent>>

PeerNext ==
  \/ PeerCancel
  \/ PeerCtxDone
  \/ PeerTick
  \/ \E resp \in PollResponses : PeerPoll(resp)
  \/ PeerIter
  \/ \E n \in Downloads, resp \in Responses, opened \in BOOLEAN :
       DlGet(n, resp, opened)
  \/ \E n \in Downloads, copied \in BOOLEAN : DlCopy(n, copied)
  \/ \E n \in Downloads, renamed \in BOOLEAN : DlVerify(n, renamed)
  \/ \E applied \in 0..MaxChunks, mirror \in BOOLEAN :
       PeerFinish(applied, mirror)

PeerSpec == PeerInit /\ [][PeerNext]_vars

\* -------------------------------------------------- cleanupExtraneousFiles
\* The destination is a tree of paths, each path the sequence of its
\* components below targetDir (<<>> is targetDir itself).

\* the names a directory may hold, in the lexical order of filepath.Walk
TreeNames == <<"a", "krun-chunks", "manifest.json">>
SubNames == {"a", ChunksDir}
TreePaths ==
  {<<x>> : x \in SubNames} \cup {<<x, y>> : x \in SubNames, y \in SubNames}
    \cup {<<ManifestFile>>}

\* filepath.Dir(p)
Dir(p) == SubSeq(p, 1, Len(p) - 1)
\* info.Name()
Base(p) == p[Len(p)]
\* path lies inside the directory d
Inside(path, d) ==
  Len(path) > Len(d) /\ SubSeq(path, 1, Len(d)) = d

\* the trees a destination may hold: a child needs a directory above it,
\* main has created <dir>/krun-chunks, and manifest.json is a file
Trees ==
  {t \in [TreePaths -> {"none", "file", "dir"}] :
     /\ \A p \in TreePaths : (t[p] # "none" /\ Len(p) > 1) => t[Dir(p)] = "dir"
     /\ t[<<ChunksDir>>] = "dir"
     /\ t[<<ManifestFile>>] # "dir"}

\* the first loops of cleanupExtraneousFiles: keepMap holds the keep
\* list, the two internal paths, and every directory above a kept path
KeepMapMut(kept) == kept \cup {<<ChunksDir>>, <<ManifestFile>>}
KeepMap(kept) ==
  kept \cup {<<ChunksDir>>, <<ManifestFile>>}
    \cup {d \in TreePaths : \E p \in kept : Inside(p, d)}

\* readDirNames(path): the entries of a directory, sorted
Children(t, d) ==
  SelectSeq([n \in 1..Len(TreeNames) |-> d \o <<TreeNames[n]>>],
            LAMBDA p : p \in TreePaths /\ t[p] # "none")

\* os.RemoveAll(path), os.Remove(path)
RemoveAll(t, path) ==
  [p \in TreePaths |-> IF p = path \/ Inside(p, path) THEN "none" ELSE t[p]]

MirrorInit ==
  /\ ExecIdle /\ SyncIdle /\ RestIdle /\ FsIdle /\ CheckIdle /\ PeerIdle
  /\ tree \in Trees
  /\ tree0 = tree
  /\ keep \in SUBSET {p \in TreePaths : tree[p] # "none"}
  /\ mirrorPc = "start"
  /\ todo = <<>>
  /\ mirrorErr = "none"
  /\ callerErr = "none"
  /\ IngestIdle

\* filepath.Walk reaches targetDir: its names are read, the callback
\* skips the root
MirrorStart ==
  /\ mirrorPc = "start"
  /\ mirrorPc' = "walk"
  /\ todo' = Children(tree, <<>>)
  /\ UNCHANGED <<tree, tree0, keep, mirrorErr, callerErr>>
  /\ UNCHANGED <<fsVars, checkVars, peerVars, ingestVars, notAgent>>

\* filepath.Walk reaches the next path and calls the callback on it; a
\* directory that the callback neither skips nor removes is walked next.
\* removed tells whether os.Remove or os.RemoveAll succeeds.
MirrorVisit(removed) ==
  /\ mirrorPc = "walk"
  /\ todo # <<>>
  /\ LET path == Head(todo)
         isDir == tree[path] = "dir"
     IN  IF isDir /\ Base(path) = ChunksDir
         THEN /\ todo' = Tail(todo)
              /\ UNCHANGED <<tree, mirrorPc, mirrorErr>>
         ELSE IF path \in KeepMap(keep)
         THEN /\ todo' = (IF isDir THEN Children(tree, path) ELSE <<>>)
                           \o Tail(todo)
              /\ UNCHANGED <<tree, mirrorPc, mirrorErr>>
         ELSE IF removed
         THEN /\ tree' = RemoveAll(tree, path)
              /\ todo' = Tail(todo)
              /\ UNCHANGED <<mirrorPc, mirrorErr>>
         ELSE /\ mirrorPc' = "done"
              /\ mirrorErr' = "remove failed"
              /\ UNCHANGED <<tree, todo>>
  /\ UNCHANGED <<tree0, keep, callerErr>>
  /\ UNCHANGED <<fsVars, checkVars, peerVars, ingestVars, notAgent>>

\* filepath.Walk has visited everything and returns nil
MirrorEnd ==
  /\ mirrorPc = "walk"
  /\ todo = <<>>
  /\ mirrorPc' = "done"
  /\ mirrorErr' = "nil"
  /\ UNCHANGED <<tree, tree0, keep, todo, callerErr>>
  /\ UNCHANGED <<fsVars, checkVars, peerVars, ingestVars, notAgent>>

\* the caller, runIngest or runPeer: an error of the mirror step is
\* logged as a warning, and the sync returns nil
MirrorReturn ==
  /\ mirrorPc = "done"
  /\ mirrorPc' = "returned"
  /\ callerErr' = "nil"
  /\ UNCHANGED <<tree, tree0, keep, todo, mirrorErr>>
  /\ UNCHANGED <<fsVars, checkVars, peerVars, ingestVars, notAgent>>

MirrorNext ==
  \/ MirrorStart
  \/ \E removed \in BOOLEAN : MirrorVisit(removed)
  \/ MirrorEnd
  \/ MirrorReturn

MirrorSpec == MirrorInit /\ [][MirrorNext]_vars

\* -------------------------------------------- runIngest and applyManifest
\* A path is its text, cut into tokens: "/" and the components between.

\* tar entries in a stream at most
MaxEntries == 2

\* the -dir flag's default, /app
DataDir == <<"/", "app">>

\* the entry names a tar stream may carry
RawNames ==
  { <<"h1">>,
    <<ManifestFile>>,
    <<"..">>,
    <<"..", "/", "evil">>,
    <<"/", "etc", "/", "evil">>,
    <<"d", "/", "..", "/", "..", "/", "evil">>,
    <<"d", "/", "f">> }

TarStreams == UNION {[1..n -> RawNames] : n \in 0..MaxEntries}

\* the components with "/" between them
RECURSIVE Slashed(_)
Slashed(comps) ==
  IF comps = <<>> THEN <<>>
  ELSE IF Len(comps) = 1 THEN comps
  ELSE <<comps[1], "/">> \o Slashed(Tail(comps))

\* the loop of filepath.Clean over the parts between slashes: empty
\* parts and "." are dropped, ".." takes back the component before it,
\* or is kept at the front of a path that is not rooted
RECURSIVE CleanParts(_, _, _)
CleanParts(parts, rooted, acc) ==
  IF parts = <<>> THEN acc
  ELSE LET c == Head(parts)
           rest == Tail(parts)
       IN  IF c = <<>> \/ c = <<".">>
           THEN CleanParts(rest, rooted, acc)
           ELSE IF c = <<"..">>
           THEN IF acc # <<>> /\ acc[Len(acc)] # ".."
                THEN CleanParts(rest, rooted, SubSeq(acc, 1, Len(acc) - 1))
                ELSE IF rooted THEN CleanParts(rest, rooted, acc)
                ELSE CleanParts(rest, rooted, Append(acc, ".."))
           ELSE CleanParts(rest, rooted, Append(acc, c[1]))

Rooted(name) == name # <<>> /\ name[1] = "/"

\* filepath.Clean(name)
Clean(name) ==
  LET comps == CleanParts(Split(name, "/"), Rooted(name), <<>>)
  IN  IF Rooted(name) THEN <<"/">> \o Slashed(comps)
      ELSE IF comps = <<>> THEN <<".">>
      ELSE Slashed(comps)

\* filepath.Join(dir, name)
Join(dir, name) ==
  IF name = <<>> THEN Clean(dir) ELSE Clean(dir \o <<"/">> \o name)

\* filepath.Base(name)
RECURSIVE BaseName(_)
BaseName(name) ==
  IF name = <<>> THEN <<".">>
  ELSE IF name[Len(name)] = "/"
  THEN IF Len(name) = 1 THEN <<"/">>
       ELSE BaseName(SubSeq(name, 1, Len(name) - 1))
  ELSE <<name[Len(name)]>>

ChunksPath == Join(DataDir, <<ChunksDir>>)
ManifestPath == Join(DataDir, <<ManifestFile>>)

\* the directories that are there before the agent writes anything
Standing == {<<"/">>, DataDir, ChunksPath}

\* filepath.Clean(header.Name) != header.Name || header.Name == ".." ||
\* header.Name[0] == '/'
Suspicious(name) ==
  Clean(name) # name \/ name = <<"..">> \/ name[1] = "/"

\* where runIngest stores an entry
IngestTarget(name) ==
  IF name = <<ManifestFile>> THEN ManifestPath
  ELSE Join(ChunksPath, BaseName(name))

\* where applyManifest extracts an entry
ApplyTarget(name) == Join(DataDir, name)

\* what is left in a file when io.Copy into it fails midway
PartBytes == "part"

\* what the manifest.json of an earlier sync holds, and no manifest.json
OldManifest == "old"
NoManifest == "none"

\* what a file holds that applyManifest extracted
AppliedBytes == "applied"

\* os.Open(manifestPath) finds the file
hasManifest == manifestBytes # NoManifest

\* the file at that path holds those bytes, whatever it held before
Store(files, path, bytes) ==
  {f \in files : f.path # path} \cup {[path |-> path, bytes |-> bytes]}

\* main has made <dir> and <dir>/krun-chunks before runIngest begins; the
\* manifest of an earlier sync may be there
IngestInit ==
  /\ ExecIdle /\ SyncIdle /\ RestIdle /\ FsIdle /\ CheckIdle /\ PeerIdle /\ MirrorIdle
  /\ ingestNames \in TarStreams
  /\ applyNames = <<>>
  /\ ingPc = "read"
  /\ ingCleanup \in BOOLEAN
  /\ written = {}
  /\ ingested = {}
  /\ created = <<>>
  /\ manifestBytes \in {NoManifest, OldManifest}
  /\ hasChunks = TRUE
  /\ ingMirrored = <<>>
  /\ ingErr = "none"

\* one turn of the loop over the tar stream of runIngest: a suspicious
\* entry is skipped, another is stored in its target with os.Create and
\* io.Copy; bytes is the content of the entry, and outcome says whether
\* os.Create fails ("create"), io.Copy fails midway ("copy"), or neither
IngestEntry(bytes, outcome) ==
  /\ ingPc = "read"
  /\ ingestNames # <<>>
  /\ LET name == Head(ingestNames)
         target == IngestTarget(name)
     IN  IF Suspicious(name)
         THEN /\ ingestNames' = Tail(ingestNames)
              /\ UNCHANGED <<ingPc, written, ingested, manifestBytes, ingErr>>
         ELSE IF outcome = "create" \/ target \in Standing
         THEN /\ ingPc' = "returned"
              /\ ingErr' = "failed to create file"
              /\ UNCHANGED <<ingestNames, written, ingested, manifestBytes>>
         ELSE /\ written' = written \cup {target}
              /\ manifestBytes' =
                   IF target # ManifestPath THEN manifestBytes
                   ELSE IF outcome = "copy" THEN PartBytes ELSE bytes
              /\ ingested' =
                   IF target = ManifestPath THEN ingested
                   ELSE Store(ingested, target,
                              IF outcome = "copy" THEN PartBytes ELSE bytes)
              /\ IF outcome = "copy"
                 THEN /\ ingPc' = "returned"
                      /\ ingErr' = "failed to write file"
                      /\ UNCHANGED ingestNames
                 ELSE /\ ingestNames' = Tail(ingestNames)
                      /\ UNCHANGED <<ingPc, ingErr>>
  /\ UNCHANGED <<applyNames, ingCleanup, created, hasChunks, ingMirrored>>
  /\ UNCHANGED <<fsVars, checkVars, peerVars, mirrorVars, notAgent>>

\* the tar stream ends, with io.EOF or with an error; then the manifest
\* is opened and decoded and applyManifest begins, on the tar stream that
\* the chunks of the manifest reassemble to
IngestEnd(streamOK, decoded, names) ==
  /\ ingPc = "read"
  /\ ingestNames = <<>>
  /\ IF ~streamOK
     THEN /\ ingPc' = "returned" /\ ingErr' = "tar read error"
          /\ UNCHANGED applyNames
     ELSE IF ~hasManifest
     THEN /\ ingPc' = "returned"
          /\ ingErr' = "failed to open manifest for apply"
          /\ UNCHANGED applyNames
     ELSE IF ~decoded
     THEN /\ ingPc' = "returned"
          /\ ingErr' = "failed to decode manifest for apply"
          /\ UNCHANGED applyNames
     ELSE /\ ingPc' = "apply"
          /\ applyNames' = names
          /\ UNCHANGED ingErr
  /\ UNCHANGED <<ingestNames, ingCleanup, written, ingested, created,
                 manifestBytes, hasChunks, ingMirrored>>
  /\ UNCHANGED <<fsVars, checkVars, peerVars, mirrorVars, notAgent>>

\* one turn of the loop of applyManifest over the reassembled tar: the
\* entry is extracted to filepath.Join(targetDir, header.Name), as a
\* directory or as a file; os.MkdirAll of a directory that is there makes
\* nothing, and os.OpenFile of a directory fails; an entry named
\* manifest.json is extracted over <dir>/manifest.json, which a failure
\* leaves as it was (the open failed) or with part of the entry (the
\* copy failed)
ApplyEntry(made) ==
  /\ ingPc = "apply"
  /\ applyNames # <<>>
  /\ LET target == ApplyTarget(Head(applyNames))
     IN  /\ created' = Append(created, target)
         /\ IF made
            THEN /\ written' = IF target \in Standing THEN written
                                ELSE written \cup {target}
                 /\ manifestBytes' = IF target = ManifestPath
                                     THEN AppliedBytes ELSE manifestBytes
                 /\ applyNames' = Tail(applyNames)
                 /\ UNCHANGED <<ingPc, ingErr>>
            ELSE /\ ingPc' = "returned"
                 /\ ingErr' = "failed to apply manifest"
                 /\ manifestBytes' \in IF target = ManifestPath
                                       THEN {manifestBytes, PartBytes}
                                       ELSE {manifestBytes}
                 /\ UNCHANGED <<applyNames, written>>
  /\ UNCHANGED <<ingestNames, ingCleanup, ingested, hasChunks, ingMirrored>>
  /\ UNCHANGED <<fsVars, checkVars, peerVars, mirrorVars, notAgent>>

IngestCleanupMut == FALSE
\* if cleanup
IngestCleanup == ingCleanup

\* the reassembled tar ends, with io.EOF or with an error; after
\* applyManifest come, with -mirror, the mirror step on the created list,
\* which leaves manifest.json and krun-chunks alone, with -cleanup the
\* removal of both, and the return of runIngest
ApplyEnd(streamOK, mirror) ==
  /\ ingPc = "apply"
  /\ applyNames = <<>>
  /\ ingPc' = "returned"
  /\ ingMirrored' = IF MirrorRuns(streamOK, mirror)
                    THEN Append(ingMirrored, created) ELSE ingMirrored
  /\ IF ~streamOK
     THEN /\ ingErr' = "failed to apply manifest"
          /\ UNCHANGED <<ingested, manifestBytes, hasChunks>>
     ELSE /\ ingErr' = "nil"
          /\ IF IngestCleanup
             THEN /\ ingested' = {}
                  /\ manifestBytes' = NoManifest
                  /\ hasChunks' = FALSE
             ELSE UNCHANGED <<ingested, manifestBytes, hasChunks>>
  /\ UNCHANGED <<ingestNames, applyNames, ingCleanup, written, created>>
  /\ UNCHANGED <<fsVars, checkVars, peerVars, mirrorVars, notAgent>>

IngestNext ==
  \/ \E bytes \in Blobs, outcome \in {"ok", "create", "copy"} :
       IngestEntry(bytes, outcome)
  \/ \E streamOK \in BOOLEAN, decoded \in BOOLEAN, names \in TarStreams :
       IngestEnd(streamOK, decoded, names)
  \/ \E made \in BOOLEAN : ApplyEntry(made)
  \/ \E streamOK \in BOOLEAN, mirror \in BOOLEAN : ApplyEnd(streamOK, mirror)

IngestSpec == IngestInit /\ [][IngestNext]_vars

\* ---------------------------------------------------------------------
\* Part IV: the parts of the sync engine that have a specification of
\* their own: the download pool of runPeer, the hub, GenerateManifest and
\* MakeTar.

\* ------------------------------------------- the download pool of runPeer
\* The loop of runPeer over the manifest with its semaphore, its
\* WaitGroup and its error channel; downloadChunk is one step that ends
\* with an error or without.

Tasks == 1..MaxTasks
Downloading == {n \in Tasks : task[n] = "running"}

PoolInit ==
  /\ ExecIdle /\ SyncIdle /\ AgentIdle /\ SrvIdle /\ GenIdle /\ TarIdle
  /\ RemIdle
  /\ poolPc = "loop"
  /\ poolLen \in 0..MaxTasks
  /\ poolIdx = 1
  /\ task = [n \in Tasks |-> "none"]
  /\ sem = 0
  /\ poolErrCh = <<>>
  /\ poolErr = "none"

CanAcquireMut == TRUE
\* sem <- struct{}{} on a channel of capacity concurrency
CanAcquire == sem < concurrency

\* one iteration of `for _, chunk := range manifest.Chunks` up to the
\* send to sem: the error that is in errCh is returned; a chunk that is
\* in the chunks directory is passed over; for a chunk that is not,
\* wg.Add(1) and a slot of sem is taken, when there is one
PoolIter(missing) ==
  /\ poolPc = "loop"
  /\ poolIdx <= poolLen
  /\ IF poolErrCh # <<>>
     THEN /\ poolPc' = "returned"
          /\ poolErr' = "failed to download chunk"
          /\ poolErrCh' = Tail(poolErrCh)
          /\ UNCHANGED <<poolIdx, sem>>
     ELSE IF ~missing
     THEN /\ poolIdx' = poolIdx + 1
          /\ UNCHANGED <<poolPc, poolErr, poolErrCh, sem>>
     ELSE /\ CanAcquire
          /\ sem' = sem + 1
          /\ poolPc' = "spawn"
          /\ UNCHANGED <<poolIdx, poolErr, poolErrCh>>
  /\ UNCHANGED <<poolLen, task>>
  /\ UNCHANGED <<notRest, notPool>>

\* the go statement: the download of the chunk begins
PoolSpawn ==
  /\ poolPc = "spawn"
  /\ task' = [task EXCEPT ![poolIdx] = "running"]
  /\ poolIdx' = poolIdx + 1
  /\ poolPc' = "loop"
  /\ UNCHANGED <<poolLen, sem, poolErrCh, poolErr>>
  /\ UNCHANGED <<notRest, notPool>>

\* the goroutine of a download ends: downloadChunk has returned, its
\* error goes to errCh if there is room, and the deferred calls give the
\* slot back and count the WaitGroup down
TaskEnd(n, ok) ==
  /\ task[n] = "running"
  /\ task' = [task EXCEPT ![n] = IF ok THEN "ok" ELSE "failed"]
  /\ poolErrCh' = IF ~ok /\ Len(poolErrCh) < ErrChCap
                  THEN Append(poolErrCh, n) ELSE poolErrCh
  /\ sem' = sem - 1
  /\ UNCHANGED <<poolPc, poolLen, poolIdx, poolErr>>
  /\ UNCHANGED <<notRest, notPool>>

\* after the loop: wg.Wait(), close(errCh) and the error in it, if any
PoolWait ==
  /\ poolPc = "loop"
  /\ poolIdx > poolLen
  /\ Downloading = {}
  /\ poolPc' = "returned"
  /\ poolErr' = IF poolErrCh # <<>> THEN "failed to download chunk" ELSE "nil"
  /\ poolErrCh' = <<>>
  /\ UNCHANGED <<poolLen, poolIdx, task, sem>>
  /\ UNCHANGED <<notRest, notPool>>

PoolNext ==
  \/ \E missing \in BOOLEAN : PoolIter(missing)
  \/ PoolSpawn
  \/ \E n \in Tasks, ok \in BOOLEAN : TaskEnd(n, ok)
  \/ PoolWait

PoolSpec == PoolInit /\ [][PoolNext]_vars

\* -------------------------------------------------- runHub, newHubHandler
\* A request is its method and its path, the path cut into tokens as in
\* part III.  The answer is a status code.

\* requests in flight at most
MaxConns == 1

Methods == {"GET", "POST"}
UrlPaths ==
  { <<"/">>,
    <<"/", "manifest">>,
    <<"/", "manifest", "/">>,
    <<"/", ManifestFile>>,
    <<"/", "chunks">>,
    <<"/", "chunks", "/">>,
    <<"/", "chunks", "/", "h1">>,
    <<"/", "chunks", "/", "zz">>,
    <<"/", "chunks", "/", "index.html">>,
    <<"/", "chunks", "/", "..", "/", ManifestFile>>,
    <<"/", "chunks", "/", "h1", "/", "..", "/", "..", "/", ManifestFile>> }
Requests == [method : Methods, path : UrlPaths]
NoRequest == [method |-> "", path |-> <<>>]

\* cleanPath of net/http: path.Clean, and the trailing slash is kept
MuxClean(path) ==
  IF path[Len(path)] = "/" /\ Clean(path) # <<"/">>
  THEN Clean(path) \o <<"/">> ELSE Clean(path)

\* strings.HasPrefix(path, prefix)
HasPrefix(path, prefix) ==
  Len(path) >= Len(prefix) /\ SubSeq(path, 1, Len(prefix)) = prefix

ManifestRoute == <<"/", "manifest">>
ChunksRoute == <<"/", "chunks", "/">>

\* the handler of "/manifest": other methods than GET get 405, and
\* http.ServeFile answers 404 when manifest.json is not there
ManifestHandler(req, files) ==
  IF req.method # "GET" THEN 405
  ELSE IF ManifestFile \in files THEN 200 ELSE 404

\* the handler of "/chunks/": http.StripPrefix, then http.FileServer on
\* the chunks directory, which redirects .../index.html, lists a
\* directory, serves a file and answers 404 for a name that is not
\* there, whatever the method
ChunksHandler(req, files, chunks) ==
  LET name == SubSeq(req.path, Len(ChunksRoute) + 1, Len(req.path))
  IN  IF name # <<>> /\ name[Len(name)] = "index.html" THEN 301
      ELSE IF ChunksDir \notin files THEN 404
      ELSE IF name = <<>> THEN 200
      ELSE IF Len(name) = 1 /\ name[1] \in chunks THEN 200
      ELSE 404

\* http.ServeMux: a path that is not clean is redirected to the clean
\* one, "/manifest" is matched as it stands and "/chunks/" as a prefix,
\* "/chunks" is redirected to "/chunks/", and nothing else is found
Status(req, files, chunks) ==
  IF MuxClean(req.path) # req.path THEN 301
  ELSE IF req.path = ManifestRoute THEN ManifestHandler(req, files)
  ELSE IF HasPrefix(req.path, ChunksRoute)
  THEN ChunksHandler(req, files, chunks)
  ELSE IF req.path \o <<"/">> = ChunksRoute THEN 301
  ELSE 404

\* main has made <dir> and <dir>/krun-chunks; the leader's ingest has
\* left manifest.json and chunks there, or not yet
SrvInit ==
  /\ ExecIdle /\ SyncIdle /\ AgentIdle /\ PoolIdle /\ GenIdle /\ TarIdle
  /\ RemIdle
  /\ srvPc = "start"
  /\ srvCtx = FALSE
  /\ srvStdin = "open"
  /\ watchPc = "read"
  /\ listening = FALSE
  /\ conns = 0
  /\ srvFiles \in {{ChunksDir}, {ChunksDir, ManifestFile}}
  /\ srvChunks \in SUBSET Hashes
  /\ srvReq = NoRequest
  /\ srvResp = 0
  /\ triggers = {}

\* net.Listen: on failure klog.Fatalf ends the process, and the deferred
\* cleanup does not run
HubListen(bound) ==
  /\ srvPc = "start"
  /\ IF bound
     THEN srvPc' = "serving" /\ listening' = TRUE
     ELSE srvPc' = "exited" /\ UNCHANGED listening
  /\ UNCHANGED <<srvCtx, srvStdin, watchPc, conns, srvFiles, srvChunks,
                 srvReq, srvResp, triggers>>
  /\ UNCHANGED <<notRest, notSrv>>

\* the orchestrator closes the hub's stdin
StdinEOF ==
  /\ srvPc \in {"start", "serving"}
  /\ srvStdin = "open"
  /\ srvStdin' = "eof"
  /\ triggers' = triggers \cup {"eof"}
  /\ UNCHANGED <<srvPc, srvCtx, watchPc, listening, conns, srvFiles,
                 srvChunks, srvReq, srvResp>>
  /\ UNCHANGED <<notRest, notSrv>>

\* SIGINT or SIGTERM: the context of signal.NotifyContext, the parent of
\* the hub's context, is cancelled
HubSignal ==
  /\ srvPc \in {"start", "serving"}
  /\ ~srvCtx
  /\ srvCtx' = TRUE
  /\ triggers' = triggers \cup {"signal"}
  /\ UNCHANGED <<srvPc, srvStdin, watchPc, listening, conns, srvFiles,
                 srvChunks, srvReq, srvResp>>
  /\ UNCHANGED <<notRest, notSrv>>

\* the goroutine that watches stdin: io.Copy returns at EOF, and
\* server.Shutdown closes the listener
WatchShutdown ==
  /\ srvPc \in {"serving", "shutdown"}
  /\ watchPc = "read"
  /\ srvStdin = "eof"
  /\ watchPc' = "shutdown"
  /\ listening' = FALSE
  /\ UNCHANGED <<srvPc, srvCtx, srvStdin, conns, srvFiles, srvChunks,
                 srvReq, srvResp, triggers>>
  /\ UNCHANGED <<notRest, notSrv>>

\* server.Shutdown returns when no request is in flight; then cancel()
WatchCancel ==
  /\ srvPc \in {"serving", "shutdown"}
  /\ watchPc = "shutdown"
  /\ conns = 0
  /\ watchPc' = "done"
  /\ srvCtx' = TRUE
  /\ UNCHANGED <<srvPc, srvStdin, listening, conns, srvFiles, srvChunks,
                 srvReq, srvResp, triggers>>
  /\ UNCHANGED <<notRest, notSrv>>

\* <-ctx.Done() in runHub, and its server.Shutdown begins
HubCtxDone ==
  /\ srvPc = "serving"
  /\ srvCtx
  /\ srvPc' = "shutdown"
  /\ listening' = FALSE
  /\ UNCHANGED <<srvCtx, srvStdin, watchPc, conns, srvFiles, srvChunks,
                 srvReq, srvResp, triggers>>
  /\ UNCHANGED <<notRest, notSrv>>

HubCleanupMut(files) == files
\* the deferred os.RemoveAll(<dir>/krun-chunks) and
\* os.Remove(<dir>/manifest.json)
HubCleanup(files) == files \ {ChunksDir, ManifestFile}

\* server.Shutdown returns when no request is in flight; runHub returns
\* and its deferred cleanup runs
RunHubReturn ==
  /\ srvPc = "shutdown"
  /\ conns = 0
  /\ srvPc' = "returned"
  /\ srvFiles' = HubCleanup(srvFiles)
  /\ srvChunks' = IF ChunksDir \in srvFiles' THEN srvChunks ELSE {}
  /\ UNCHANGED <<srvCtx, srvStdin, watchPc, listening, conns, srvReq,
                 srvResp, triggers>>
  /\ UNCHANGED <<notRest, notSrv>>

\* a request arrives and the handler answers it
HubAccept(req) ==
  /\ srvPc \in {"serving", "shutdown"}
  /\ listening
  /\ conns < MaxConns
  /\ conns' = conns + 1
  /\ srvReq' = req
  /\ srvResp' = Status(req, srvFiles, srvChunks)
  /\ UNCHANGED <<srvPc, srvCtx, srvStdin, watchPc, listening, srvFiles,
                 srvChunks, triggers>>
  /\ UNCHANGED <<notRest, notSrv>>

\* the answer has been written, the connection is idle
HubDone ==
  /\ srvPc \in {"serving", "shutdown"}
  /\ conns > 0
  /\ conns' = conns - 1
  /\ UNCHANGED <<srvPc, srvCtx, srvStdin, watchPc, listening, srvFiles,
                 srvChunks, srvReq, srvResp, triggers>>
  /\ UNCHANGED <<notRest, notSrv>>

\* server.Serve returns an error that is not ErrServerClosed: klog.Fatalf
\* ends the process, and the deferred cleanup does not run
ServeFailed ==
  /\ srvPc = "serving"
  /\ listening
  /\ srvPc' = "exited"
  /\ listening' = FALSE
  /\ UNCHANGED <<srvCtx, srvStdin, watchPc, conns, srvFiles, srvChunks,
                 srvReq, srvResp, triggers>>
  /\ UNCHANGED <<notRest, notSrv>>

SrvNext ==
  \/ \E bound \in BOOLEAN : HubListen(bound)
  \/ StdinEOF
  \/ HubSignal
  \/ WatchShutdown
  \/ WatchCancel
  \/ HubCtxDone
  \/ RunHubReturn
  \/ \E req \in Requests : HubAccept(req)
  \/ HubDone
  \/ ServeFailed

SrvSpec == SrvInit /\ [][SrvNext]_vars

\* the goroutines of the hub are scheduled, net.Listen returns, and a
\* request in flight is answered
SrvLiveSpec ==
  /\ SrvInit /\ [][SrvNext]_vars
  /\ WF_vars(\E bound \in BOOLEAN : HubListen(bound))
  /\ WF_vars(WatchShutdown)
  /\ WF_vars(WatchCancel)
  /\ WF_vars(HubCtxDone)
  /\ WF_vars(RunHubReturn)
  /\ WF_vars(HubDone)

\* -------------------------------------------------------- GenerateManifest
\* The tar stream that MakeTar writes into the pipe is a sequence of
\* bytes; the chunker cuts it where the content tells it to, which is
\* here any place.

\* bytes in the tar stream at most
MaxStream == 3

Bytes == {"x", "y"}
TarBytes == UNION {[1..n -> Bytes] : n \in 0..MaxStream}

\* hex.EncodeToString(sha256.Sum256(data)): a name that tells the data
Digest(data) == <<"sha256">> \o data

\* the bytes of the file of that name
BlobOf(files, name) == (CHOOSE f \in files : f.path = name).bytes

RECURSIVE Concat(_)
Concat(seqs) == IF seqs = <<>> THEN <<>> ELSE Head(seqs) \o Concat(Tail(seqs))

GenInit ==
  /\ ExecIdle /\ SyncIdle /\ AgentIdle /\ PoolIdle /\ SrvIdle /\ TarIdle
  /\ RemIdle
  /\ genPc = "chunk"
  /\ tarStream \in TarBytes
  /\ tarRest = tarStream
  /\ emitted = <<>>
  /\ genManifest = <<>>
  /\ genDir = {}
  /\ packFailed \in BOOLEAN
  /\ genErr = "none"

AppendedMut(m, e) == <<e>> \o m
\* m.Chunks = append(m.Chunks, ChunkInfo{...})
Appended(m, e) == Append(m, e)

\* one turn of the loop: chk.Next gives the next chunk, of k bytes; it is
\* hashed and written to <chunksDir>/<hash> with os.WriteFile, which may
\* fail and leave the file with part of the bytes; then the manifest gets
\* its entry
GenChunk(k, wrote) ==
  /\ genPc = "chunk"
  /\ k <= Len(tarRest)
  /\ LET data == SubSeq(tarRest, 1, k)
         hash == Digest(data)
     IN  /\ emitted' = Append(emitted, data)
         /\ tarRest' = SubSeq(tarRest, k + 1, Len(tarRest))
         /\ IF wrote
            THEN /\ genDir' = Store(genDir, hash, data)
                 /\ genManifest' =
                      Appended(genManifest, [hash |-> hash, size |-> k])
                 /\ UNCHANGED <<genPc, genErr>>
            ELSE /\ genDir' = Store(genDir, hash, SubSeq(data, 1, k - 1))
                 /\ genPc' = "returned"
                 /\ genErr' = "failed to save chunk"
                 /\ UNCHANGED genManifest
  /\ UNCHANGED <<tarStream, packFailed>>
  /\ UNCHANGED notGen

\* chk.Next returns io.EOF: MakeTar has written the whole stream and
\* closed the pipe
GenEOF ==
  /\ genPc = "chunk"
  /\ tarRest = <<>>
  /\ ReaderSees(packFailed) = "eof"
  /\ genPc' = "returned"
  /\ genErr' = "nil"
  /\ UNCHANGED <<tarStream, tarRest, emitted, genManifest, genDir,
                 packFailed>>
  /\ UNCHANGED notGen

\* chk.Next returns the error MakeTar closed the pipe with; the chunker
\* gives up the bytes it has read and not yet emitted
GenReadError ==
  /\ genPc = "chunk"
  /\ ReaderSees(packFailed) = "err"
  /\ genPc' = "returned"
  /\ genErr' = "tar error"
  /\ UNCHANGED <<tarStream, tarRest, emitted, genManifest, genDir,
                 packFailed>>
  /\ UNCHANGED notGen

GenNext ==
  \/ \E k \in 1..MaxStream, wrote \in BOOLEAN : GenChunk(k, wrote)
  \/ GenEOF
  \/ GenReadError

GenSpec == GenInit /\ [][GenNext]_vars

\* ----------------------------------------------------------------- MakeTar
\* The source is a tree of paths, each path the sequence of its
\* components below the source directory; the exclude expression is the
\* set of relative paths it matches.

\* the names a directory may hold, in the lexical order of filepath.Walk
SrcNames == <<"d", "f">>
SrcPaths ==
  {<<"d">>, <<"f">>, <<"d", "d">>, <<"d", "f">>, <<"d", "d", "f">>}

\* the trees a source directory may hold
SrcTrees ==
  {t \in [SrcPaths -> {"none", "file", "dir"}] :
     \A p \in SrcPaths : (t[p] # "none" /\ Len(p) > 1) => t[Dir(p)] = "dir"}
NoTree == [p \in SrcPaths |-> "none"]

\* readDirNames(path): the entries of a directory, sorted
SrcChildren(t, d) ==
  SelectSeq([n \in 1..Len(SrcNames) |-> d \o <<SrcNames[n]>>],
            LAMBDA p : p \in SrcPaths /\ t[p] # "none")

\* the source is a directory with a tree below it, or the one file f,
\* whose base directory is its parent
TarInit ==
  /\ ExecIdle /\ SyncIdle /\ AgentIdle /\ PoolIdle /\ SrvIdle /\ GenIdle
  /\ RemIdle
  /\ tarPc = "start"
  /\ srcIsDir \in BOOLEAN
  /\ srcTree \in IF srcIsDir THEN SrcTrees
                 ELSE {[NoTree EXCEPT ![<<"f">>] = "file"]}
  /\ matching \in SUBSET SrcPaths
  /\ walkTodo = <<>>
  /\ entries = <<>>
  /\ tarErr = "none"

\* filepath.Walk reaches the source: for a directory its names are read
\* and the callback skips the path "."; a file is visited as it is
TarStart ==
  /\ tarPc = "start"
  /\ tarPc' = "walk"
  /\ walkTodo' = SrcChildren(srcTree, <<>>)
  /\ UNCHANGED <<srcIsDir, srcTree, matching, entries, tarErr>>
  /\ UNCHANGED notTar

SkipsTreeMut(isDir) == FALSE
\* if fi.IsDir() { return filepath.SkipDir }
SkipsTree(isDir) == isDir

\* filepath.Walk reaches the next path and calls the callback on it: a
\* path that the expression matches is skipped, with all below it when
\* it is a directory; for another the header is written and the content
\* copied, and a directory is walked next.  copied tells whether the
\* file could be opened and copied.
TarVisit(copied) ==
  /\ tarPc = "walk"
  /\ walkTodo # <<>>
  /\ LET path == Head(walkTodo)
         isDir == srcTree[path] = "dir"
         below == IF isDir THEN SrcChildren(srcTree, path) ELSE <<>>
     IN  IF path \in matching
         THEN /\ walkTodo' = (IF SkipsTree(isDir) THEN <<>> ELSE below)
                               \o Tail(walkTodo)
              /\ UNCHANGED <<entries, tarPc, tarErr>>
         ELSE /\ entries' = Append(entries, path)
              /\ IF isDir \/ copied
                 THEN /\ walkTodo' = below \o Tail(walkTodo)
                      /\ UNCHANGED <<tarPc, tarErr>>
                 ELSE /\ tarPc' = "returned"
                      /\ tarErr' = "error"
                      /\ UNCHANGED walkTodo
  /\ UNCHANGED <<srcIsDir, srcTree, matching>>
  /\ UNCHANGED notTar

\* filepath.Walk has visited everything and returns nil
TarEnd ==
  /\ tarPc = "walk"
  /\ walkTodo = <<>>
  /\ tarPc' = "returned"
  /\ tarErr' = "nil"
  /\ UNCHANGED <<srcIsDir, srcTree, matching, walkTodo, entries>>
  /\ UNCHANGED notTar

TarNext ==
  \/ TarStart
  \/ \E copied \in BOOLEAN : TarVisit(copied)
  \/ TarEnd

TarSpec == TarInit /\ [][TarNext]_vars

\* ------------------------------------------------------------ ingestRemote
\* The goroutine of ingestRemote that writes the tar stream into the pipe
\* whose other end is the stdin of the ingest exec.  An entry is told by
\* its name.

RemInit ==
  /\ ExecIdle /\ SyncIdle /\ AgentIdle
  /\ PoolIdle /\ SrvIdle /\ GenIdle /\ TarIdle
  /\ remPc = "write"
  /\ remMissing \in Manifests
  /\ remLocal \in SUBSET Hashes
  /\ remIdx = 1
  /\ remSent = <<>>
  /\ remGone = FALSE

\* one turn of `for _, hash := range missing`: os.ReadFile of the chunk,
\* then tw.WriteHeader and tw.Write, which fail when the exec has gone and
\* closed its end of the pipe.  Each failure is a plain return, after
\* which the deferred tw.Close() and pw.Close() end the stream as a
\* complete one.
RemChunk(wrote) ==
  /\ remPc = "write"
  /\ remIdx <= Len(remMissing)
  /\ LET hash == remMissing[remIdx]
     IN  IF hash \notin remLocal
         THEN /\ remPc' = "closed"
              /\ UNCHANGED <<remIdx, remSent, remGone>>
         ELSE IF ~wrote
         THEN /\ remPc' = "closed"
              /\ remGone' = TRUE
              /\ UNCHANGED <<remIdx, remSent>>
         ELSE /\ remSent' = Append(remSent, hash)
              /\ remIdx' = remIdx + 1
              /\ UNCHANGED <<remPc, remGone>>
  /\ UNCHANGED <<remMissing, remLocal>>
  /\ UNCHANGED notRem

\* after the loop: the manifest.json entry, and the deferred closes
RemManifest(wrote) ==
  /\ remPc = "write"
  /\ remIdx > Len(remMissing)
  /\ remPc' = "closed"
  /\ IF wrote
     THEN /\ remSent' = Append(remSent, ManifestFile)
          /\ UNCHANGED remGone
     ELSE /\ remGone' = TRUE
          /\ UNCHANGED remSent
  /\ UNCHANGED <<remMissing, remLocal, remIdx>>
  /\ UNCHANGED notRem

RemNext ==
  \/ \E wrote \in BOOLEAN : RemChunk(wrote)
  \/ \E wrote \in BOOLEAN : RemManifest(wrote)

RemSpec == RemInit /\ [][RemNext]_vars

\* ----------------------------------------------------------- claims, agent
\* the hashes of the manifest that have no file in the chunks directory,
\* in manifest order
AbsentHashes == SelectSeq(manifest, LAMBDA h : chunkDir[Chunk(h)] = NoFile)

\* C13: when runCheck returns nil it has written the JSON array of the
\* manifest hashes without a file in the chunks directory, in manifest
\* order, which is [] when none is missing.
C13_WritesArrayOfMissing ==
  (checkPc = "done" /\ checkErr = "nil")
    => checkOut = JSONArray(AbsentHashes) \o <<"\n">>

Failed(n) == dl[n] \notin {"none", "get", "copy", "verify", "done"}

\* C14: a file named by a hash h that a download put into the chunks
\* directory holds bytes whose SHA-256 is h; and when runPeer has returned
\* and a download for h failed its integrity check, runPeer returned an
\* error and neither <chunks>/h nor <chunks>/h.tmp exists.
C14_OnlyVerifiedChunks ==
  /\ \A h \in Hashes :
       chunkDir[Chunk(h)] \notin {NoFile, OldInode(h)}
         => Sha(inodes[chunkDir[Chunk(h)]]) = h
  /\ \A n \in 1..Len(manifest) :
       (peerPc = "returned" /\ dl[n] = "integrity check failed") =>
         /\ peerErr # NoError
         /\ ~Exists(chunkDir, Chunk(manifest[n]))
         /\ ~Exists(chunkDir, Tmp(manifest[n]))

\* applyManifest was called
ApplyInvoked ==
  peerPc = "returned" /\ peerErr.kind \in {"nil", "failed to apply manifest"}

\* C15: the apply step is invoked only when every download that was
\* started has completed successfully; once a download has failed the
\* destination payload is never written, and runPeer returns an error.
C15_ApplyOnlyAfterDownloads ==
  /\ (ApplyInvoked \/ payload # <<>>) =>
       \A n \in Downloads : dl[n] \in {"none", "done"}
  /\ (\E n \in Downloads : Failed(n)) =>
       /\ payload = <<>>
       /\ peerPc = "returned" => peerErr # NoError

C15_Witness ==
  /\ peerPc = "returned" /\ peerErr.kind = "integrity check failed"
  /\ \E n \in Downloads : dl[n] = "done"
  /\ \E n \in Downloads : dl[n] = "integrity check failed"

Requested == {requests[k] : k \in 1..Len(requests)}
Listed == {manifest[n] : n \in 1..Len(manifest)}

\* C16: every GET /chunks/h is for a hash of the manifest whose blob was
\* not in the chunks directory; after a successful sync exactly the listed
\* hashes that were absent have been requested, so when some listed chunks
\* were stored and some were not, at least one request and fewer requests
\* than manifest entries were made.
C16_RequestsOnlyMissing ==
  /\ Requested \subseteq (Listed \ hadChunks)
  /\ (peerPc = "returned" /\ peerErr = NoError) =>
       /\ Requested = Listed \ hadChunks
       /\ (Listed \ hadChunks # {} /\ Listed \cap hadChunks # {}) =>
            (Len(requests) > 0 /\ Len(requests) < Len(manifest))

C16_Witness ==
  /\ peerPc = "returned" /\ peerErr = NoError
  /\ Listed \ hadChunks # {} /\ Listed \cap hadChunks # {}
  /\ Len(requests) = 1

\* dest/manifest.json, dest/krun-chunks and what it contains
Internal(p) == p = <<ManifestFile>> \/ p[1] = ChunksDir
\* internal, in K, or a directory above a path of K
Wanted(p) == Internal(p) \/ p \in keep \/ \E q \in keep : Inside(q, p)
Present == {p \in TreePaths : tree[p] # "none"}

\* C17: after cleanupExtraneousFiles has returned nil, every path under
\* the destination is internal, a member of K, or a directory above a
\* member of K.
C17_OnlyWantedRemain ==
  (mirrorPc \in {"done", "returned"} /\ mirrorErr = "nil")
    => \A p \in Present : Wanted(p)

\* C18: a path that is in K, above a path of K, or internal is never
\* removed nor changed by cleanupExtraneousFiles.
C18_WantedNeverRemoved ==
  mirrorPc # "off" => \A p \in TreePaths : Wanted(p) => tree[p] = tree0[p]

C18_Witness ==
  /\ mirrorPc = "done" /\ mirrorErr = "nil"
  /\ \E p \in keep : Len(p) > 1 /\ Dir(p) \notin keep /\ tree[p] # "none"
  /\ \E d \in TreePaths :
       /\ tree0[d] = "dir" /\ tree[d] = "none"
       /\ \E p \in TreePaths : Inside(p, d) /\ tree0[p] # "none"

\* the path whose removal failed, and the paths the walk passes over
\* because a directory above them is named krun-chunks
RemoveFailedAt(p) ==
  mirrorErr = "remove failed" /\ (p = Head(todo) \/ Inside(p, Head(todo)))
PassedOver(p) ==
  \E k \in 1..Len(p) : p[k] = ChunksDir /\ tree0[SubSeq(p, 1, k)] = "dir"

\* C19: when the removal of an extraneous path fails, the other
\* extraneous paths are removed all the same, and the enclosing sync
\* returns success.
C19_ProceedsAfterFailedRemove ==
  mirrorPc = "returned" =>
    /\ callerErr = "nil"
    /\ \A p \in Present : Wanted(p) \/ PassedOver(p) \/ RemoveFailedAt(p)

\* the path is the destination directory or lies below it
WithinDest(path) ==
  \/ path = DataDir
  \/ /\ Len(path) > Len(DataDir) + 1
     /\ SubSeq(path, 1, Len(DataDir)) = DataDir
     /\ path[Len(DataDir) + 1] = "/"

\* C20: no file or directory is made at a path outside the destination
\* directory, whatever the names of the ingest stream's entries and of
\* the entries of the reassembled payload tar.
C20_NothingWrittenOutside == \A path \in written : WithinDest(path)

\* the name of a file of the chunks directory, and whether it is the
\* SHA-256 of some chunk
FileName(f) == BaseName(f.path)[1]
HexName(name) == name \in Hashes

\* C21: every file in the chunks directory has a name that is the SHA-256
\* of its contents; runIngest never stores a chunk entry whose bytes do
\* not hash to its name or whose name is not a SHA-256.
C21_ChunkNamesAreHashes ==
  \A f \in ingested : HexName(FileName(f)) /\ Sha(f.bytes) = FileName(f)

\* C30: every writer of a chunk file writes to a temporary name and
\* renames to <hash> when the bytes are complete, so that no file named
\* <hash> ever holds only part of a chunk, not even after an error in the
\* middle of a write.
C30_NoPartialChunk ==
  \A f \in ingested : HexName(FileName(f)) => f.bytes # PartBytes

\* C22: when two downloads of one peer write the same hash at once, both
\* end without error in every interleaving, the peer sync succeeds, and
\* the file <chunks>/<hash> holds the verified bytes: a download that has
\* verified its bytes finds them in its temp file when it renames it, and
\* after a successful sync every chunk of the manifest hashes to its name.
C22_SameHashWritersSucceed ==
  /\ \A n \in Downloads :
       (dl[n] = "verify" /\ Sha(body[n]) = manifest[n]) =>
         /\ Exists(chunkDir, Tmp(manifest[n]))
         /\ inodes[chunkDir[Tmp(manifest[n])]] = body[n]
  /\ (peerPc = "returned" /\ peerErr = NoError /\ ~peerCleanup) =>
       \A n \in 1..Len(manifest) :
         Sha(inodes[chunkDir[Chunk(manifest[n])]]) = manifest[n]

\* ModeSpec: the agent in one of its two syncing modes, ingest or peer
ModeInit == IngestInit \/ PeerInit
ModeNext == IngestNext \/ PeerNext
ModeSpec == ModeInit /\ [][ModeNext]_vars

\* which of manifest.json and krun-chunks are in the destination, the
\* -cleanup flag, and how the mode ended
Artifacts ==
  IF ingPc # "off"
  THEN (IF hasManifest THEN {ManifestFile} ELSE {})
         \cup (IF hasChunks THEN {ChunksDir} ELSE {})
  ELSE peerFiles
CleanupFlag == IF ingPc # "off" THEN ingCleanup ELSE peerCleanup
ModeSucceeded ==
  \/ ingPc = "returned" /\ ingErr = "nil"
  \/ peerPc = "returned" /\ peerErr = NoError

\* C25: after runIngest or runPeer returns success, manifest.json and
\* krun-chunks are both absent from the destination if and only if the
\* cleanup flag was set; neither of them is ever removed by a run that
\* returns an error.
C25_CleanupIffFlag ==
  /\ [](ModeSucceeded => ((Artifacts = {}) <=> CleanupFlag))
  /\ [][(Artifacts \ Artifacts' # {}) => ModeSucceeded']_vars

C25_Witness ==
  /\ ingPc = "returned" /\ ingErr = "nil" /\ ingCleanup
  /\ written # {} /\ ~hasManifest /\ ~hasChunks

\* C28: runPeer starts no chunk download before a GET of the manifest has
\* come back with 200 and a body that decodes; after any other answer it
\* polls again; and once its context is cancelled during the polling it
\* returns the context's error, having downloaded, written and deleted
\* nothing.
C28_PollThenDownload ==
  /\ (requests # <<>> \/ peerPc = "loop") => lastPoll = "manifest"
  /\ lastPoll \in {"error", "status", "garbage"} =>
       \/ peerPc \in {"poll", "get"}
       \/ peerPc = "returned" /\ peerErr.kind = "context canceled"
  /\ peerCtx =>
       \/ peerPc \in {"poll", "get"}
       \/ peerPc = "returned" /\ peerErr.kind = "context canceled"
  /\ peerErr.kind = "context canceled" =>
       /\ requests = <<>> /\ payload = <<>>
       /\ ChunksDir \in peerFiles
       /\ \A h \in Hashes :
            /\ Exists(chunkDir, Chunk(h)) <=> h \in hadChunks
            /\ ~Exists(chunkDir, Tmp(h))

\* C27: at every moment of runPeer at most 5 chunk downloads are in
\* flight: a download runs only while it holds a slot of the semaphore of
\* 5 slots, which it took before it began and gives back when it ends,
\* with or without an error.
C27_AtMostFiveInFlight ==
  /\ Cardinality(Downloading) <= concurrency
  /\ sem = Cardinality(Downloading) + (IF poolPc = "spawn" THEN 1 ELSE 0)

C27_Witness ==
  /\ Cardinality(Downloading) = concurrency
  /\ poolPc = "loop" /\ poolIdx <= poolLen /\ poolErrCh = <<>>
  /\ sem = concurrency

\* C26: the hub terminates on each of its shutdown triggers, EOF on its
\* stdin and a signal or the cancellation of its context; and whenever
\* runHub returns after a successful bind, manifest.json and krun-chunks
\* have been removed from its directory.
C26_HubTerminatesAndCleans ==
  /\ [](srvPc = "returned" =>
          (ManifestFile \notin srvFiles /\ ChunksDir \notin srvFiles))
  /\ ("eof" \in triggers) ~> (srvPc \in {"returned", "exited"})
  /\ ("signal" \in triggers) ~> (srvPc \in {"returned", "exited"})

C26_Witness ==
  /\ srvPc = "returned" /\ triggers = {"eof"} /\ srvResp = 200
  /\ srvFiles = {}

\* the requests the hub is to answer with 200
Entitled(req) ==
  /\ req.method = "GET"
  /\ \/ req.path = ManifestRoute /\ ManifestFile \in srvFiles
     \/ \E h \in srvChunks : req.path = ChunksRoute \o <<h>>

\* C29: the hub answers 200 only to GET /manifest when manifest.json is
\* there and to GET /chunks/<hash> when that chunk file is there; every
\* other request is answered 404.
C29_OnlyFilesElse404 ==
  (srvPc \in {"serving", "shutdown"} /\ srvReq # NoRequest) =>
    srvResp = IF Entitled(srvReq) THEN 200 ELSE 404

\* C23: the manifest GenerateManifest returns lists the chunks in the
\* order the chunker emitted them, every entry's hash names a blob that
\* is in chunksDir and is the SHA-256 of that blob, and the blobs
\* concatenated in manifest order are the tar stream of MakeTar.
C23_ManifestReassembles ==
  (genPc = "returned" /\ genErr = "nil") =>
    /\ Len(genManifest) = Len(emitted)
    /\ \A n \in 1..Len(genManifest) :
         /\ genManifest[n].hash = Digest(emitted[n])
         /\ \E f \in genDir :
              f.path = genManifest[n].hash /\ Digest(f.bytes) = f.path
    /\ Concat([n \in 1..Len(genManifest) |->
                 BlobOf(genDir, genManifest[n].hash)]) = tarStream

C23_Witness ==
  /\ genPc = "returned" /\ genErr = "nil"
  /\ Len(genManifest) = 3
  /\ genManifest[1] = genManifest[3] /\ genManifest[1] # genManifest[2]

\* the paths that are there, and the directories above a path
SrcPresent == {p \in SrcPaths : srcTree[p] # "none"}
Above(p) == {SubSeq(p, 1, k) : k \in 1..(Len(p) - 1)}

\* C24: the entries MakeTar writes are exactly the paths under the source
\* whose relative path the exclude expression does not match and none of
\* whose ancestor directories it matches: a matching directory removes
\* its whole subtree, a matching file only itself.
C24_EntriesAreTheUnexcluded ==
  (tarPc = "returned" /\ tarErr = "nil") =>
    /\ {entries[n] : n \in 1..Len(entries)} =
         {p \in SrcPresent : p \notin matching /\ Above(p) \cap matching = {}}
    /\ Cardinality({entries[n] : n \in 1..Len(entries)}) = Len(entries)

C24_Witness ==
  /\ tarPc = "returned" /\ tarErr = "nil"
  /\ <<"d">> \in matching /\ srcTree[<<"d", "f">>] = "file"
  /\ <<"d", "f">> \notin matching
  /\ entries = <<<<"f">>>>

\* C31: runIngest replaces <dest>/manifest.json atomically: a reader of
\* manifest.json never finds part of a manifest in it, and a failure
\* while the manifest entry is written leaves manifest.json as it was.
C31_ManifestReplacedAtomically ==
  /\ [](ingPc \in {"read", "returned"} /\ ingErr # "failed to apply manifest"
          => manifestBytes # PartBytes)
  /\ [][ingErr' = "failed to write file" /\ Head(ingestNames) = <<ManifestFile>>
          => manifestBytes' = manifestBytes]_vars

\* C39: the manifest that runIngest applies is the one the tar stream of
\* this call carried: applyManifest never begins on the manifest.json
\* that an earlier sync left in the destination.
C39_AppliesStreamManifest ==
  ingPc = "apply" => manifestBytes # OldManifest

\* C38: in runIngest and runPeer the mirror step is called only after
\* applyManifest returned without error, once, and with the list that
\* this applyManifest made; when applyManifest fails the run returns an
\* error without the mirror step, and manifest.json and krun-chunks stay.
C38_MirrorOnlyAfterApply ==
  /\ ingMirrored # <<>> =>
       /\ ingPc = "returned" /\ ingErr = "nil" /\ applyNames = <<>>
       /\ ingMirrored = <<created>>
  /\ peerMirrored # <<>> =>
       /\ peerPc = "returned" /\ peerErr = NoError
       /\ peerMirrored = <<payload>> /\ Len(payload) = Len(manifest)
  /\ ingErr = "failed to apply manifest" =>
       ingMirrored = <<>> /\ hasManifest /\ hasChunks
  /\ peerErr.kind = "failed to apply manifest" =>
       peerMirrored = <<>> /\ ChunksDir \in peerFiles

C38_Witness ==
  /\ ingPc = "returned" /\ ingErr = "nil"
  /\ Len(created) = 2 /\ ingMirrored = <<created>>

\* C37: when runPeer returns, with success or with an error, every
\* download it started has ended: no download is still running, and so
\* none is still writing or renaming a file of the chunks directory.
C37_NoDownloadOutlivesReturn ==
  poolPc = "returned" => Downloading = {}

\* C32: the tar stream ingestRemote sends holds one entry for each hash
\* that check reported missing, in that order, and then manifest.json as
\* the one last entry, in every run in which the ingest exec reads the
\* stream to its end, also when a chunk cannot be read from the local
\* chunks directory.
C32_MissingThenManifest ==
  (remPc = "closed" /\ ~remGone) => remSent = remMissing \o <<ManifestFile>>

\* PackerSpec: the two readers of a pipe that a tar packer writes into,
\* GenerateManifest and the tar exec of an endpoint of the dispatcher
PackerInit == GenInit \/ Init
PackerNext == GenNext \/ Next
PackerSpec == PackerInit /\ [][PackerNext]_vars

ExecFairStep ==
  \/ MainLaunch
  \/ MainClose
  \/ MainReturn
  \/ MainSelect
  \/ \E p \in PodSet, r \in Results : MkdirReturn(p, r)
  \/ \E p \in PodSet, r \in Results : TarReturn(p, r)
  \/ \E p \in PodSet : TarDone(p)
  \/ \E p \in PodSet : EpSend(p)
  \/ \E p \in PodSet : EpLock(p)
  \/ \E p \in PodSet : EpWrite(p)
  \/ \E p \in PodSet, r \in Results : CmdReturn(p, r)
  \/ \E p \in PodSet, s \in Streams : ScanSend(p, s)
  \/ \E p \in PodSet, s \in Streams : ScanCtxDone(p, s)
  \/ \E p \in PodSet, s \in Streams : ScanLock(p, s)
  \/ \E p \in PodSet, s \in Streams : ScanWrite(p, s)
  \/ LoggerRecv
  \/ LoggerExit

ExecLiveSpec == Init /\ [][Next]_vars /\ WF_vars(ExecFairStep)

\* C36: once the goroutine of an endpoint has returned, the tar producer it
\* started terminates in the end, whichever way the endpoint took (a failed
\* mkdir included).
C36_TarProducerTerminates ==
  \A p \in PodSet : (ep[p] = "done") ~> (tarp[p] # "run")

\* C40: in the channel variant UploadAndExecuteOnPods returns in the end when
\* every remote exec returns in the end.
C40_DispatcherReturns ==
  (variant = "chan") ~> (mainPc = "returned")

\* the channel variant ends in every run: it returns or the process panics
ChanEndsOrPanics ==
  (variant = "chan") ~> (mainPc = "returned" \/ panicked)

====
